---- MODULE Spec2Model ----
(***************************************************************************)
(* TDMA link simulation: the hub's slot scheduler (internal/scheduler),    *)
(* the wire-frame codec (pkg/protocol) and the hub / ground-station        *)
(* exchange that hands slots to clients (cmd/satellite, cmd/groundstation).*)
(*                                                                         *)
(* Time is counted in whole units; SlotDuration units make one slot.       *)
(***************************************************************************)
EXTENDS Integers, Sequences, FiniteSets, TLC

\* ------------------------------------------------------------------ bounds

\* Largest table the scheduler is constructed with (NewTDMAScheduler's
\* totalSlots argument); Init draws totalSlots from 1..MaxSlots.
MaxSlots == 3

\* Last instant the clock reaches.
MaxTime == 10

\* ------------------------------------------------------- program constants

\* One slot lasts SlotDuration time units (the hub passes 1*time.Second).
SlotDuration == 1

\* An owner's slot is fresh while its age is under StaleFactor * slotDuration.
StaleFactor == 10

\* The oldest slot is preempted once its age exceeds PreemptFactor * slotDuration.
PreemptFactor == 5

\* ------------------------------------------------------------------ inputs

Nodes == {"GS_A", "GS_B"}

Priorities == {0, 1}

\* StartTime of a record that was never assigned (Go's zero time.Time, which
\* lies before every instant of the run).
ZeroTime == -1

\* The ground stations that connect to the hub.
Stations == Nodes \cup {"GS_C"}

VARIABLES
    totalSlots,     \* TDMAScheduler.totalSlots
    slots,          \* TDMAScheduler.slots: slot id -> SlotStatus
    currentSlot,    \* TDMAScheduler.currentSlot
    now,            \* the wall clock read by time.Now()
    ret,            \* the last scheduler call: what it was and what it returned
    granted,        \* history: the slot id AllocateTimeSlot last returned to each node
    gsSlot,         \* GroundStationNode.slotID of each station
    acked,          \* history: the station's slotID was set from an ACK_SLOT_<n>
    link,           \* each station's connection: the frame in flight on it
    frame,          \* a TDMAFrame built by one of the constructors
    wire,           \* the byte buffer handed to DeserializeTDMAFrame, and its origin
    dec,            \* what DeserializeTDMAFrame returned for wire.bytes
    conn,           \* a connection into a receiver: the bytes sent, the read position
    decoded,        \* the buffers the receiver has passed to DeserializeTDMAFrame
    replies,        \* the payloads the hub has written back on the connection
    message,        \* the payload handed to split, and the fragment size
    fragments,      \* the frames split returned
    assemblies,     \* FragmentAssembler: fragmentId -> FragmentAssembly
    fed,            \* the last feed: what it returned, and the indices fed so far
    mu,             \* TDMAScheduler.mu: the task holding it for writing, the readers
    task,           \* each goroutine's position, the call it is in and its result
    stopped,        \* history: TDMAScheduler.Stop() has been called
    assigner        \* history: slot id -> the nodeID of the call that last assigned it

schedVars == <<totalSlots, slots, currentSlot, now, ret>>

hubVars == <<granted, gsSlot, acked, link>>

codecVars == <<frame, wire, dec>>

rxVars == <<conn, decoded, replies>>

fragVars == <<message, fragments, assemblies, fed>>

lockVars == <<mu, task>>

runVars == <<stopped>>

histVars == <<assigner>>

vars == <<schedVars, hubVars, codecVars, rxVars, fragVars, lockVars, runVars, histVars>>

SlotIds == 0 .. (totalSlots - 1)

\* The instants at which the model looks at the system: every multiple of the
\* preemption age and one unit after it, so that slot ages fall on, just under
\* and just over both age thresholds (5 and 10 slot durations).
Instants == {t \in 0 .. MaxTime : t % (PreemptFactor * SlotDuration) <= 1}

\* ------------------------------------------------------------- scheduler

\* The record NewTDMAScheduler stores for slot i.
NewSlot(i) ==
    [SlotID |-> i, NodeID |-> "", Status |-> "FREE",
     StartTime |-> ZeroTime, FragmentID |-> 0]

NoCall ==
    [op |-> "new", val |-> <<>>, err |-> "", path |-> "", freed |-> 0]

\* time.Since(t)
Since(t) == now - t

\* Assign without the write of NodeID.
AssignKeepsOwner(sl, i, nodeID) ==
    [sl EXCEPT ![i].Status = "ASSIGNED", ![i].StartTime = now]

\* s.slots[i] = {nodeID, "ASSIGNED", time.Now()}
Assign(sl, i, nodeID) ==
    [sl EXCEPT ![i].NodeID = nodeID, ![i].Status = "ASSIGNED", ![i].StartTime = now]

\* The first loop without the two writes that free a stale slot.
RECURSIVE OwnedScanKeepsStale(_, _, _, _)
OwnedScanKeepsStale(sl, i, nodeID, freed) ==
    IF i >= totalSlots
    THEN [slots |-> sl, hit |-> -1, freed |-> freed]
    ELSE IF sl[i].NodeID = nodeID /\ sl[i].Status = "ASSIGNED"
         THEN IF Since(sl[i].StartTime) < SlotDuration * StaleFactor
              THEN [slots |-> sl, hit |-> i, freed |-> freed]
              ELSE OwnedScanKeepsStale(sl, i + 1, nodeID, freed + 1)
         ELSE OwnedScanKeepsStale(sl, i + 1, nodeID, freed)

\* AllocateTimeSlot, first loop: walk the table from slot i; return at the
\* caller's first fresh slot, and free each stale slot of the caller passed
\* on the way.  hit = -1 when the loop runs to the end.
RECURSIVE OwnedScan(_, _, _, _)
OwnedScan(sl, i, nodeID, freed) ==
    IF i >= totalSlots
    THEN [slots |-> sl, hit |-> -1, freed |-> freed]
    ELSE IF sl[i].NodeID = nodeID /\ sl[i].Status = "ASSIGNED"
         THEN IF Since(sl[i].StartTime) < SlotDuration * StaleFactor
              THEN [slots |-> sl, hit |-> i, freed |-> freed]
              ELSE OwnedScan([sl EXCEPT ![i].Status = "FREE", ![i].NodeID = ""],
                             i + 1, nodeID, freed + 1)
         ELSE OwnedScan(sl, i + 1, nodeID, freed)

\* Mutant of RingScan: the scan indexes the table by the offset alone,
\* leaving out currentSlot.
RECURSIVE RingScanFromZero(_, _)
RingScanFromZero(sl, offset) ==
    IF offset >= totalSlots
    THEN -1
    ELSE IF sl[offset % totalSlots].Status = "FREE"
         THEN offset % totalSlots
         ELSE RingScanFromZero(sl, offset + 1)

\* AllocateTimeSlot, third loop: first FREE slot at currentSlot + offset,
\* offset = from .. totalSlots-1; -1 when there is none.
RECURSIVE RingScan(_, _)
RingScan(sl, offset) ==
    IF offset >= totalSlots
    THEN -1
    ELSE IF sl[(currentSlot + offset) % totalSlots].Status = "FREE"
         THEN (currentSlot + offset) % totalSlots
         ELSE RingScan(sl, offset + 1)

\* AllocateTimeSlot, fourth loop: the ASSIGNED slot whose StartTime is before
\* every one seen so far, starting from oldestTime = time.Now().
RECURSIVE OldestScan(_, _, _, _)
OldestScan(sl, i, oldestSlot, oldestTime) ==
    IF i >= totalSlots
    THEN [slot |-> oldestSlot, time |-> oldestTime]
    ELSE IF sl[i].Status = "ASSIGNED" /\ sl[i].StartTime < oldestTime
         THEN OldestScan(sl, i + 1, i, sl[i].StartTime)
         ELSE OldestScan(sl, i + 1, oldestSlot, oldestTime)

\* Mutant of Preemptable: the stale-age factor (10) is used in place of the
\* preemption factor (5).
PreemptableStaleAge(oldestSlot, oldestTime) ==
    oldestSlot # -1 /\ Since(oldestTime) > SlotDuration * StaleFactor

\* Mutant of Preemptable: the age test is >= instead of >.
PreemptableAtThreshold(oldestSlot, oldestTime) ==
    oldestSlot # -1 /\ Since(oldestTime) >= SlotDuration * PreemptFactor

\* The age test that lets AllocateTimeSlot take over the oldest slot.
Preemptable(oldestSlot, oldestTime) ==
    oldestSlot # -1 /\ Since(oldestTime) > SlotDuration * PreemptFactor

\* AllocateTimeSlot(nodeID, priority): the table it leaves and what it returns.
AllocateTimeSlot(nodeID, priority) ==
    LET own  == OwnedScan(slots, 0, nodeID, 0)
        sl   == own.slots
        cur  == currentSlot
        nxt  == (currentSlot + 1) % totalSlots
        far  == RingScan(sl, 2)
        old  == OldestScan(sl, 0, -1, now)
    IN  IF own.hit # -1
        THEN [slots |-> sl, slotID |-> own.hit, err |-> "", path |-> "owned",
              freed |-> own.freed]
        ELSE IF sl[cur].Status = "FREE"
        THEN [slots |-> Assign(sl, cur, nodeID), slotID |-> cur, err |-> "",
              path |-> "current", freed |-> own.freed]
        ELSE IF sl[nxt].Status = "FREE"
        THEN [slots |-> Assign(sl, nxt, nodeID), slotID |-> nxt, err |-> "",
              path |-> "next", freed |-> own.freed]
        ELSE IF far # -1
        THEN [slots |-> Assign(sl, far, nodeID), slotID |-> far, err |-> "",
              path |-> "scan", freed |-> own.freed]
        ELSE IF Preemptable(old.slot, old.time)
        THEN [slots |-> Assign(sl, old.slot, nodeID), slotID |-> old.slot, err |-> "",
              path |-> "preempt", freed |-> own.freed]
        ELSE [slots |-> sl, slotID |-> -1, err |-> "NoSlotAvailable",
              path |-> "fail", freed |-> own.freed]

\* Mutant of WindowFree: the inner loop stops one slot short of the window.
WindowFreeShort(sl, i, count) ==
    \A j \in 0 .. (count - 2) : sl[i + j].Status = "FREE"

\* AllocateConsecutiveSlots, inner test: slots i .. i+count-1 are all FREE.
WindowFree(sl, i, count) ==
    \A j \in 0 .. (count - 1) : sl[i + j].Status = "FREE"

\* AllocateConsecutiveSlots, outer loop from window start i.
RECURSIVE WindowScan(_, _, _)
WindowScan(sl, i, count) ==
    IF i > totalSlots - count
    THEN -1
    ELSE IF WindowFree(sl, i, count) THEN i ELSE WindowScan(sl, i + 1, count)

\* AllocateConsecutiveSlots(nodeID, count).
AllocateConsecutiveSlots(nodeID, count) ==
    LET i == WindowScan(slots, 0, count)
    IN  IF i # -1
        THEN [slots |-> [k \in SlotIds |->
                            IF k >= i /\ k < i + count
                            THEN [slots[k] EXCEPT !.NodeID = nodeID,
                                                  !.Status = "ASSIGNED",
                                                  !.StartTime = now]
                            ELSE slots[k]],
              ids |-> [j \in 1 .. count |-> i + j - 1], err |-> ""]
        ELSE [slots |-> slots, ids |-> <<>>, err |-> "InsufficientConsecutiveSlots"]

\* Mutant of ReleaseTimeSlot: the owner is left in the released record.
ReleaseKeepsOwner(slotID) ==
    IF slotID < 0 \/ slotID >= totalSlots
    THEN [slots |-> slots, err |-> "InvalidSlotId"]
    ELSE [slots |-> [slots EXCEPT ![slotID].Status = "FREE",
                                  ![slotID].FragmentID = 0],
          err |-> ""]

\* ReleaseTimeSlot(slotID).
ReleaseTimeSlot(slotID) ==
    IF slotID < 0 \/ slotID >= totalSlots
    THEN [slots |-> slots, err |-> "InvalidSlotId"]
    ELSE [slots |-> [slots EXCEPT ![slotID].Status = "FREE",
                                  ![slotID].NodeID = "",
                                  ![slotID].FragmentID = 0],
          err |-> ""]

\* GetSchedule(): slot id -> owner, for the ASSIGNED slots.
GetSchedule ==
    [i \in {k \in SlotIds : slots[k].Status = "ASSIGNED"} |-> slots[i].NodeID]

\* ----------------------------------------------------------------- actions

\* NewTDMAScheduler(n, slotDuration).
NewTDMAScheduler(n) ==
    /\ totalSlots = n
    /\ slots = [i \in 0 .. (n - 1) |-> NewSlot(i)]
    /\ currentSlot = 0
    /\ now = 0
    /\ ret = NoCall

Idle == [kind |-> "idle", slot |-> -1]

\* No station is connected.
NoStations ==
    /\ granted = [n \in Stations |-> -1]
    /\ gsSlot = [n \in Stations |-> -1]
    /\ acked = [n \in Stations |-> FALSE]
    /\ link = [n \in Stations |-> Idle]

\* No frame has been built or received.
NoFrame == [Header |-> <<>>]

NoDecode == [done |-> FALSE, err |-> "", frame |-> NoFrame]

NoWire == [bytes |-> <<>>, from |-> "none"]

CodecIdle ==
    /\ frame = NoFrame
    /\ wire = NoWire
    /\ dec = NoDecode

\* No connection has been accepted.
NoConn ==
    [stream |-> <<>>, pos |-> 0, head |-> <<>>, phase |-> "closed",
     kind |-> "hub", first |-> 0, cuts |-> {}, arrived |-> 0]

RxIdle ==
    /\ conn = NoConn
    /\ decoded = <<>>
    /\ replies = <<>>

NoMessage == [payload |-> <<>>, max |-> 0]

NoFeed == [result |-> "none", payload |-> <<>>, order |-> <<>>]

\* sync.RWMutex, unlocked.
Unlocked == [writer |-> "none", readers |-> {}]

\* No goroutine has been started.
LockIdle ==
    /\ mu = Unlocked
    /\ task = <<>>

\* No call has assigned a slot.
HistIdle == assigner = <<>>

\* Stop has not been called.
RunIdle == stopped = FALSE

\* Nothing has been split or fed.
FragIdle ==
    /\ message = NoMessage
    /\ fragments = <<>>
    /\ assemblies = <<>>
    /\ fed = NoFeed

SchedulerInit ==
    /\ \E n \in 1 .. MaxSlots : NewTDMAScheduler(n)
    /\ NoStations
    /\ CodecIdle
    /\ RxIdle
    /\ FragIdle
    /\ LockIdle
    /\ RunIdle
    /\ HistIdle

Allocate(nodeID, priority) ==
    LET r == AllocateTimeSlot(nodeID, priority)
    IN  /\ slots' = r.slots
        /\ ret' = [NoCall EXCEPT !.op = "allocate", !.val = <<r.slotID>>,
                                 !.err = r.err, !.path = r.path, !.freed = r.freed]
        /\ UNCHANGED <<totalSlots, currentSlot, now>>

AllocateConsecutive(nodeID, count) ==
    LET r == AllocateConsecutiveSlots(nodeID, count)
    IN  /\ slots' = r.slots
        /\ ret' = [NoCall EXCEPT !.op = "consecutive", !.val = r.ids, !.err = r.err]
        /\ UNCHANGED <<totalSlots, currentSlot, now>>

Release(slotID) ==
    LET r == ReleaseTimeSlot(slotID)
    IN  /\ slots' = r.slots
        /\ ret' = [NoCall EXCEPT !.op = "release", !.err = r.err]
        /\ UNCHANGED <<totalSlots, currentSlot, now>>

Snapshot ==
    /\ ret' = [NoCall EXCEPT !.op = "snapshot"]
    /\ UNCHANGED <<totalSlots, slots, currentSlot, now>>

\* A firing of the ticker that adds 1 without the modulo.
TickNoWrap ==
    /\ currentSlot' = currentSlot + 1
    /\ ret' = [NoCall EXCEPT !.op = "tick"]
    /\ UNCHANGED <<totalSlots, slots, now>>

\* scheduleLoop: one firing of the ticker.
Tick ==
    /\ currentSlot' = (currentSlot + 1) % totalSlots
    /\ ret' = [NoCall EXCEPT !.op = "tick"]
    /\ UNCHANGED <<totalSlots, slots, now>>

\* The wall clock moves on to the next instant.
Elapse ==
    /\ \E t \in Instants :
          /\ t > now
          /\ \A u \in Instants : u > now => t <= u
          /\ now' = t
    /\ ret' = [NoCall EXCEPT !.op = "elapse"]
    /\ UNCHANGED <<totalSlots, slots, currentSlot>>

Next ==
    \/ \E n \in Nodes, p \in Priorities : Allocate(n, p) /\ UNCHANGED <<hubVars, codecVars, rxVars, fragVars, lockVars, runVars, histVars>>
    \/ \E n \in Nodes, c \in 1 .. (MaxSlots + 1) :
           AllocateConsecutive(n, c) /\ UNCHANGED <<hubVars, codecVars, rxVars, fragVars, lockVars, runVars, histVars>>
    \/ \E s \in -1 .. MaxSlots : Release(s) /\ UNCHANGED <<hubVars, codecVars, rxVars, fragVars, lockVars, runVars, histVars>>
    \/ Snapshot /\ UNCHANGED <<hubVars, codecVars, rxVars, fragVars, lockVars, runVars, histVars>>
    \/ Tick /\ UNCHANGED <<hubVars, codecVars, rxVars, fragVars, lockVars, runVars, histVars>>
    \/ Elapse /\ UNCHANGED <<hubVars, codecVars, rxVars, fragVars, lockVars, runVars, histVars>>

\* The scheduler under arbitrary calls of its public operations.
Spec == SchedulerInit /\ [][Next]_vars

\* ------------------------------------------- the table and who assigned it

\* A call of AllocateTimeSlot by nodeID; a slot returned is noted as assigned
\* by nodeID.
TableAllocate(nodeID, priority) ==
    /\ Allocate(nodeID, priority)
    /\ assigner' = IF ret'.err = ""
                   THEN [i \in DOMAIN assigner \cup {ret'.val[1]} |->
                            IF i = ret'.val[1] THEN nodeID ELSE assigner[i]]
                   ELSE assigner

\* A call of AllocateConsecutiveSlots by nodeID.
TableConsecutive(nodeID, count) ==
    /\ AllocateConsecutive(nodeID, count)
    /\ assigner' = LET ids == {ret'.val[j] : j \in 1 .. Len(ret'.val)}
                   IN  [i \in DOMAIN assigner \cup ids |->
                           IF i \in ids THEN nodeID ELSE assigner[i]]

TableNext ==
    \/ \E n \in Nodes, p \in Priorities :
           TableAllocate(n, p) /\ UNCHANGED <<hubVars, codecVars, rxVars, fragVars, lockVars, runVars>>
    \/ \E n \in Nodes, c \in 1 .. (MaxSlots + 1) :
           TableConsecutive(n, c) /\ UNCHANGED <<hubVars, codecVars, rxVars, fragVars, lockVars, runVars>>
    \/ \E s \in -1 .. MaxSlots :
           Release(s) /\ UNCHANGED <<hubVars, codecVars, rxVars, fragVars, lockVars, runVars, histVars>>
    \/ Tick /\ UNCHANGED <<hubVars, codecVars, rxVars, fragVars, lockVars, runVars, histVars>>
    \/ Elapse /\ UNCHANGED <<hubVars, codecVars, rxVars, fragVars, lockVars, runVars, histVars>>

SpecTable == SchedulerInit /\ [][TableNext]_vars

\* ------------------------------------------------ stopping the tick driver

\* TDMAScheduler.Stop(): returns nil; nothing is sent to scheduleLoop, whose
\* ticker keeps firing.
Stop ==
    /\ stopped' = TRUE
    /\ ret' = [NoCall EXCEPT !.op = "stop"]
    /\ UNCHANGED <<totalSlots, slots, currentSlot, now>>

StopNext ==
    \/ \E n \in Nodes, p \in Priorities :
           Allocate(n, p) /\ UNCHANGED <<hubVars, codecVars, rxVars, fragVars, lockVars, runVars, histVars>>
    \/ \E s \in SlotIds : Release(s) /\ UNCHANGED <<hubVars, codecVars, rxVars, fragVars, lockVars, runVars, histVars>>
    \/ Tick /\ UNCHANGED <<hubVars, codecVars, rxVars, fragVars, lockVars, runVars, histVars>>
    \/ Elapse /\ UNCHANGED <<hubVars, codecVars, rxVars, fragVars, lockVars, runVars, histVars>>
    \/ Stop /\ UNCHANGED <<hubVars, codecVars, rxVars, fragVars, lockVars, histVars>>

\* The scheduler with its tick driver started, and Stop among its calls.
SpecStop == SchedulerInit /\ [][StopNext]_vars

\* ------------------------------------ allocate calls by non-expiring owners

\* The clock moves on only while no assignment grows older than the
\* preemption age, so no owner's slot ever expires.
ElapseFresh ==
    /\ Elapse
    /\ \A i \in SlotIds :
           slots[i].Status = "ASSIGNED"
           => now' - slots[i].StartTime <= PreemptFactor * SlotDuration

\* AllocateTimeSlot called for a station, the id it returns recorded.
AllocateGranted(nodeID, priority) ==
    /\ Allocate(nodeID, priority)
    /\ granted' = [granted EXCEPT ![nodeID] = IF ret'.err = "" THEN ret'.val[1] ELSE @]
    /\ UNCHANGED <<gsSlot, acked, link>>

AllocNext ==
    \/ \E n \in Stations, p \in Priorities :
           AllocateGranted(n, p) /\ UNCHANGED <<codecVars, rxVars, fragVars, lockVars, runVars, histVars>>
    \/ Tick /\ UNCHANGED <<hubVars, codecVars, rxVars, fragVars, lockVars, runVars, histVars>>
    \/ ElapseFresh /\ UNCHANGED <<hubVars, codecVars, rxVars, fragVars, lockVars, runVars, histVars>>

SpecAlloc == SchedulerInit /\ [][AllocNext]_vars

\* -------------------------------------------------- hub and ground stations

\* Table size of the hub's scheduler.
HubSlots == 2

\* Last instant of a hub run.
HubMaxTime == 6

\* TDMA_EPOCH, as an instant of the model's clock.
TDMA_EPOCH == 0

Abs(a) == IF a < 0 THEN -a ELSE a

\* a / b of Go on integers, b # 0: the quotient truncated toward zero.
Quo(a, b) ==
    IF (a < 0) = (b < 0) THEN Abs(a) \div Abs(b) ELSE -(Abs(a) \div Abs(b))

\* a % b of Go, b # 0: the remainder has the sign of a.
Rem(a, b) == a - b * Quo(a, b)

\* Go panics on an integer division or remainder by zero.
DivideByZero(slotDuration, nSlots) == slotDuration = 0 \/ nSlots = 0

\* int(elapsed/slotDuration) % totalSlots at the instant t.
SlotAt(t, slotDuration, nSlots) ==
    Rem(Quo(t - TDMA_EPOCH, slotDuration), nSlots)

\* GetGlobalSlotID(slotDuration, totalSlots), when it does not panic.
GetGlobalSlotID(slotDuration, nSlots) == SlotAt(now, slotDuration, nSlots)

\* The hub and the stations read DefaultSlotDuration and DefaultTotalSlots,
\* which equal the hub scheduler's slotDuration and totalSlots.
GlobalSlot == GetGlobalSlotID(SlotDuration, totalSlots)

\* The priority the hub passes to AllocateTimeSlot.
HubPriority == 1

\* main of the ground station sets slotID from the command line.
HubInit ==
    /\ NewTDMAScheduler(HubSlots)
    /\ granted = [n \in Stations |-> -1]
    /\ gsSlot \in [Stations -> 0 .. (HubSlots - 1)]
    /\ acked = [n \in Stations |-> FALSE]
    /\ link = [n \in Stations |-> Idle]
    /\ CodecIdle
    /\ RxIdle
    /\ FragIdle
    /\ LockIdle
    /\ RunIdle
    /\ HistIdle

\* SendDefaultData: a data frame goes out when the clock slot is the
\* station's slotID (one frame in flight per connection).
StationSend(n) ==
    /\ link[n] = Idle
    /\ GlobalSlot = gsSlot[n]
    /\ link' = [link EXCEPT ![n] = [kind |-> "data", slot |-> gsSlot[n]]]
    /\ UNCHANGED <<schedVars, granted, gsSlot, acked>>

\* SatelliteNode.processFrame on a valid data frame of station n.
HubProcessFrame(n) ==
    /\ link[n].kind = "data"
    /\ IF link[n].slot # GlobalSlot
       THEN /\ link' = [link EXCEPT ![n] = Idle]
            /\ UNCHANGED <<schedVars, granted>>
       ELSE LET r == AllocateTimeSlot(n, HubPriority)
            IN  /\ slots' = r.slots
                /\ ret' = [NoCall EXCEPT !.op = "allocate", !.val = <<r.slotID>>,
                                         !.err = r.err, !.path = r.path,
                                         !.freed = r.freed]
                /\ granted' = [granted EXCEPT ![n] = IF r.err = "" THEN r.slotID ELSE @]
                /\ link' = [link EXCEPT ![n] =
                                IF r.err = "" THEN [kind |-> "ack", slot |-> r.slotID]
                                ELSE Idle]
                /\ UNCHANGED <<totalSlots, currentSlot, now>>
    /\ UNCHANGED <<gsSlot, acked>>

\* GroundStationNode.receiveLoop / processFrame on ACK_SLOT_<n>.
StationReceive(n) ==
    /\ link[n].kind = "ack"
    /\ gsSlot' = [gsSlot EXCEPT ![n] = link[n].slot]
    /\ acked' = [acked EXCEPT ![n] = TRUE]
    /\ link' = [link EXCEPT ![n] = Idle]
    /\ UNCHANGED <<schedVars, granted>>

HubElapse ==
    /\ now < HubMaxTime
    /\ Elapse

HubNext ==
    \/ \E n \in Stations : StationSend(n) /\ UNCHANGED <<codecVars, rxVars, fragVars, lockVars, runVars, histVars>>
    \/ \E n \in Stations : HubProcessFrame(n) /\ UNCHANGED <<codecVars, rxVars, fragVars, lockVars, runVars, histVars>>
    \/ \E n \in Stations : StationReceive(n) /\ UNCHANGED <<codecVars, rxVars, fragVars, lockVars, runVars, histVars>>
    \/ Tick /\ UNCHANGED <<hubVars, codecVars, rxVars, fragVars, lockVars, runVars, histVars>>
    \/ HubElapse /\ UNCHANGED <<hubVars, codecVars, rxVars, fragVars, lockVars, runVars, histVars>>

SpecHub == HubInit /\ [][HubNext]_vars

\* ------------------------------------------- goroutines and TDMAScheduler.mu

\* Table size of the scheduler the goroutines share.
LockSlots == 2

\* handleConnection runs once per connection; scheduleLoop is the tick driver;
\* statusLoop reads the schedule.
ConnTasks == Nodes

Tasks == ConnTasks \cup {"driver", "status"}

\* The scheduler calls a goroutine makes.
Calls(t) ==
    IF t \in ConnTasks
    THEN {[op |-> "allocate", node |-> t, arg |-> HubPriority],
          [op |-> "consecutive", node |-> t, arg |-> LockSlots]}
         \cup {[op |-> "release", node |-> t, arg |-> i] : i \in 0 .. (LockSlots - 1)}
    ELSE IF t = "driver"
    THEN {[op |-> "tick", node |-> "", arg |-> 0]}
    ELSE {[op |-> "snapshot", node |-> "", arg |-> 0]}

NoResult == [val |-> <<>>, err |-> ""]

\* What the call returns and the table it leaves when nothing else runs
\* between its Lock and its Unlock.
Serial(call) ==
    IF call.op = "allocate"
    THEN LET r == AllocateTimeSlot(call.node, call.arg)
         IN  [slots |-> r.slots, currentSlot |-> currentSlot,
              got |-> [val |-> <<r.slotID>>, err |-> r.err]]
    ELSE IF call.op = "consecutive"
    THEN LET r == AllocateConsecutiveSlots(call.node, call.arg)
         IN  [slots |-> r.slots, currentSlot |-> currentSlot,
              got |-> [val |-> r.ids, err |-> r.err]]
    ELSE IF call.op = "release"
    THEN LET r == ReleaseTimeSlot(call.arg)
         IN  [slots |-> r.slots, currentSlot |-> currentSlot,
              got |-> [val |-> <<>>, err |-> r.err]]
    ELSE IF call.op = "tick"
    THEN [slots |-> slots, currentSlot |-> (currentSlot + 1) % totalSlots,
          got |-> NoResult]
    ELSE [slots |-> slots, currentSlot |-> currentSlot,
          got |-> [val |-> GetSchedule, err |-> ""]]

\* The position of a goroutine outside the scheduler.
Outside(t) == IF t \in ConnTasks THEN "read" ELSE "wait"

Parked(t) ==
    [pc |-> Outside(t), call |-> [op |-> "none", node |-> "", arg |-> 0],
     serial |-> [slots |-> <<>>, currentSlot |-> 0, got |-> NoResult],
     win |-> -1, got |-> NoResult]

InCall(t) == task[t].pc \in {"locked", "mid", "done"}

\* Lock and RLock taken although the mutex is held.
AcquirableAlways(t, call) == TRUE

\* s.mu.Lock() returns when nobody holds the mutex; s.mu.RLock() when no
\* writer does.
Acquirable(t, call) ==
    IF call.op = "snapshot"
    THEN mu.writer = "none"
    ELSE mu.writer = "none" /\ mu.readers = {}

LockInit ==
    /\ NewTDMAScheduler(LockSlots)
    /\ NoStations
    /\ CodecIdle
    /\ RxIdle
    /\ FragIdle
    /\ mu = Unlocked
    /\ task = [t \in Tasks |-> Parked(t)]
    /\ RunIdle
    /\ HistIdle

\* s.mu.Lock() / s.mu.RLock() at the head of a scheduler method.
Lock(t, call) ==
    /\ task[t].pc = Outside(t)
    /\ Acquirable(t, call)
    /\ mu' = IF call.op = "snapshot"
             THEN [mu EXCEPT !.readers = @ \cup {t}]
             ELSE [mu EXCEPT !.writer = t]
    /\ task' = [task EXCEPT ![t] = [pc |-> "locked", call |-> call,
                                    serial |-> Serial(call), win |-> -1,
                                    got |-> NoResult]]
    /\ UNCHANGED schedVars

\* The first writes (or reads) of the method's body.
\*   AllocateTimeSlot: the first loop, which frees the caller's stale slots
\*     or returns its fresh one.
\*   AllocateConsecutiveSlots: the window search and the first slot's fields.
\*   ReleaseTimeSlot: the range check and Status = "FREE".
\*   scheduleLoop: the one assignment to currentSlot.
\*   GetSchedule: the map entry of slot 0.
FirstHalf(t) ==
    /\ task[t].pc = "locked"
    /\ LET call == task[t].call
       IN  IF call.op = "allocate"
           THEN LET own == OwnedScan(slots, 0, call.node, 0)
                IN  /\ slots' = own.slots
                    /\ task' = [task EXCEPT ![t].pc = "mid", ![t].win = own.hit]
                    /\ UNCHANGED currentSlot
           ELSE IF call.op = "consecutive"
           THEN LET i == WindowScan(slots, 0, call.arg)
                IN  /\ slots' = IF i = -1 THEN slots ELSE Assign(slots, i, call.node)
                    /\ task' = [task EXCEPT ![t].pc = "mid", ![t].win = i]
                    /\ UNCHANGED currentSlot
           ELSE IF call.op = "release"
           THEN LET ok == call.arg >= 0 /\ call.arg < totalSlots
                IN  /\ slots' = IF ok THEN [slots EXCEPT ![call.arg].Status = "FREE"]
                                ELSE slots
                    /\ task' = [task EXCEPT ![t].pc = "mid",
                                            ![t].win = IF ok THEN call.arg ELSE -1]
                    /\ UNCHANGED currentSlot
           ELSE IF call.op = "tick"
           THEN /\ currentSlot' = (currentSlot + 1) % totalSlots
                /\ task' = [task EXCEPT ![t].pc = "done"]
                /\ UNCHANGED slots
           ELSE /\ task' = [task EXCEPT
                              ![t].pc = "mid",
                              ![t].got.val =
                                  [i \in {k \in {0} : slots[k].Status = "ASSIGNED"} |->
                                      slots[i].NodeID]]
                /\ UNCHANGED <<slots, currentSlot>>
    /\ UNCHANGED <<totalSlots, now, ret, mu>>

\* The rest of the method's body, up to its return statement.
SecondHalf(t) ==
    /\ task[t].pc = "mid"
    /\ LET call == task[t].call
           win  == task[t].win
       IN  IF call.op = "allocate"
           THEN IF win # -1
                THEN /\ task' = [task EXCEPT ![t].pc = "done",
                                             ![t].got = [val |-> <<win>>, err |-> ""]]
                     /\ UNCHANGED slots
                ELSE LET r == AllocateTimeSlot(call.node, call.arg)
                     IN  /\ slots' = r.slots
                         /\ task' = [task EXCEPT
                                       ![t].pc = "done",
                                       ![t].got = [val |-> <<r.slotID>>, err |-> r.err]]
           ELSE IF call.op = "consecutive"
           THEN IF win = -1
                THEN /\ task' = [task EXCEPT
                                   ![t].pc = "done",
                                   ![t].got = [val |-> <<>>,
                                               err |-> "InsufficientConsecutiveSlots"]]
                     /\ UNCHANGED slots
                ELSE /\ slots' = [k \in SlotIds |->
                                    IF k > win /\ k < win + call.arg
                                    THEN Assign(slots, k, call.node)[k]
                                    ELSE slots[k]]
                     /\ task' = [task EXCEPT
                                   ![t].pc = "done",
                                   ![t].got = [val |-> [j \in 1 .. call.arg |-> win + j - 1],
                                               err |-> ""]]
           ELSE IF call.op = "release"
           THEN IF win = -1
                THEN /\ task' = [task EXCEPT ![t].pc = "done",
                                             ![t].got = [val |-> <<>>, err |-> "InvalidSlotId"]]
                     /\ UNCHANGED slots
                ELSE /\ slots' = [slots EXCEPT ![win].NodeID = "", ![win].FragmentID = 0]
                     /\ task' = [task EXCEPT ![t].pc = "done"]
           ELSE /\ task' = [task EXCEPT
                              ![t].pc = "done",
                              ![t].got.val =
                                  [i \in DOMAIN task[t].got.val
                                         \cup {k \in SlotIds \ {0} : slots[k].Status = "ASSIGNED"} |->
                                      IF i = 0 THEN task[t].got.val[i] ELSE slots[i].NodeID]]
                /\ UNCHANGED slots
    /\ UNCHANGED <<totalSlots, currentSlot, now, ret, mu>>

\* The deferred s.mu.Unlock() / s.mu.RUnlock(): the method returns.
Unlock(t) ==
    /\ task[t].pc = "done"
    /\ mu' = IF task[t].call.op = "snapshot"
             THEN [mu EXCEPT !.readers = @ \ {t}]
             ELSE [mu EXCEPT !.writer = IF @ = t THEN "none" ELSE @]
    /\ task' = [task EXCEPT ![t] = [Parked(t) EXCEPT
                                       !.pc = IF t \in ConnTasks THEN "write" ELSE Outside(t)]]
    /\ UNCHANGED schedVars

\* conn.Write of the reply, then the connection task is back in conn.Read.
WriteReply(t) ==
    /\ task[t].pc = "write"
    /\ task' = [task EXCEPT ![t].pc = Outside(t)]
    /\ UNCHANGED <<schedVars, mu>>

\* Time passes between calls.
LockElapse ==
    /\ \A t \in Tasks : ~InCall(t)
    /\ Elapse
    /\ UNCHANGED lockVars

LockNext ==
    \/ \E t \in Tasks : \E call \in Calls(t) :
           Lock(t, call) /\ UNCHANGED <<hubVars, codecVars, rxVars, fragVars, runVars, histVars>>
    \/ \E t \in Tasks : FirstHalf(t) /\ UNCHANGED <<hubVars, codecVars, rxVars, fragVars, runVars, histVars>>
    \/ \E t \in Tasks : SecondHalf(t) /\ UNCHANGED <<hubVars, codecVars, rxVars, fragVars, runVars, histVars>>
    \/ \E t \in Tasks : Unlock(t) /\ UNCHANGED <<hubVars, codecVars, rxVars, fragVars, runVars, histVars>>
    \/ \E t \in ConnTasks : WriteReply(t) /\ UNCHANGED <<hubVars, codecVars, rxVars, fragVars, runVars, histVars>>
    \/ LockElapse /\ UNCHANGED <<hubVars, codecVars, rxVars, fragVars, runVars, histVars>>

SpecLock == LockInit /\ [][LockNext]_vars

\* ------------------------------------------------------------ the slot clock

\* The wall clock reads an instant of -ClockSpan .. ClockSpan around the epoch.
ClockSpan == 4

\* Slot durations and table sizes passed by a caller: -1 .. MaxConfig.
MaxConfig == 2

ClockInstants == (TDMA_EPOCH - ClockSpan) .. (TDMA_EPOCH + ClockSpan)

Configs == -1 .. MaxConfig

\* NewTDMAScheduler(n, slotDuration) for any n: the loop fills ids 0 .. n-1.
ClockInit ==
    /\ \E n \in Configs : NewTDMAScheduler(n)
    /\ NoStations
    /\ CodecIdle
    /\ RxIdle
    /\ FragIdle
    /\ LockIdle
    /\ RunIdle
    /\ HistIdle

\* The wall clock is set (time.Now() is whatever the host's clock reads).
SetClock(t) ==
    /\ now' = t
    /\ ret' = [NoCall EXCEPT !.op = "elapse"]
    /\ UNCHANGED <<totalSlots, slots, currentSlot>>

\* A call of GetGlobalSlotID(slotDuration, nSlots): the instant read and the
\* arguments are kept with the slot returned, err is "panic" when it crashes.
CallGetGlobalSlotID(slotDuration, nSlots) ==
    /\ ret' = [NoCall EXCEPT
                 !.op  = "GetGlobalSlotID",
                 !.val = IF DivideByZero(slotDuration, nSlots)
                         THEN <<now, slotDuration, nSlots>>
                         ELSE <<now, slotDuration, nSlots,
                                GetGlobalSlotID(slotDuration, nSlots)>>,
                 !.err = IF DivideByZero(slotDuration, nSlots) THEN "panic" ELSE ""]
    /\ UNCHANGED <<totalSlots, slots, currentSlot, now>>

ClockNext ==
    \/ \E t \in ClockInstants : SetClock(t) /\ UNCHANGED <<hubVars, codecVars, rxVars, fragVars, lockVars, runVars, histVars>>
    \/ \E d \in Configs, n \in Configs :
           CallGetGlobalSlotID(d, n) /\ UNCHANGED <<hubVars, codecVars, rxVars, fragVars, lockVars, runVars, histVars>>

SpecClock == ClockInit /\ [][ClockNext]_vars

\* -------------------------------------------------------------- frame codec

\* A uint32 is held as its two 16-bit halves, a uint16 and a byte as integers.
U32(hi, lo) == [hi |-> hi, lo |-> lo]

Half == 65536

\* uint32(n) of a non-negative int that fits 31 bits.
ToU32(n) == U32(n \div Half, n % Half)

\* int(v) of a uint32 below 2^31.
ToInt(v) == v.hi * Half + v.lo

\* The one value v, evaluated once.
Once(S) == CHOOSE v \in S : TRUE

\* a ^ b on 16-bit values, bit by bit (bit i has weight 2^i).
Xor(a, b) ==
    Once({LET bit(i) == (((u \div 2^i) + (v \div 2^i)) % 2) * 2^i
          IN  bit(0) + bit(1) + bit(2) + bit(3) + bit(4) + bit(5) + bit(6)
                + bit(7) + bit(8) + bit(9) + bit(10) + bit(11) + bit(12)
                + bit(13) + bit(14) + bit(15) : u \in {a}, v \in {b}})

\* crc ^ x, without the shift.
CrcStepNoShift(crc, x) ==
    Once({U32(Xor(c.hi, y.hi), Xor(c.lo, y.lo)) : c \in {crc}, y \in {x}})

\* (crc << 1) ^ x on uint32.
CrcStep(crc, x) ==
    Once({U32(Xor((2 * c.hi + c.lo \div (Half \div 2)) % Half, y.hi),
              Xor((2 * c.lo) % Half, y.lo)) : c \in {crc}, y \in {x}})

RECURSIVE CrcRange(_, _, _, _)
\* The steps of a range loop for bytes[lo] .. bytes[hi], in order: the first
\* half of the range, then the second half from the crc the first leaves.
CrcRange(crc, bytes, lo, hi) ==
    IF lo > hi THEN crc
    ELSE IF lo = hi THEN CrcStep(crc, U32(0, bytes[lo]))
    ELSE Once({CrcRange(c, bytes, (lo + hi) \div 2 + 1, hi) :
                  c \in {CrcRange(crc, bytes, lo, (lo + hi) \div 2)}})

\* A range loop of calculateCRC: crc after the first n bytes of the array.
CrcBytes(crc, bytes, n) == CrcRange(crc, bytes, 1, n)

calculateCRC(f) ==
    LET c0 == CrcBytes(U32(Half - 1, Half - 1), f.Header, Len(f.Header))
        c1 == CrcStep(c0, f.SlotID)
        c2 == CrcStep(c1, U32(0, f.TotalFrags))
        c3 == CrcStep(c2, U32(0, f.FragIndex))
        c4 == CrcStep(c3, U32(0, f.Flags))
    IN  CrcBytes(c4, f.Data, Len(f.Data))

FRAME_HEADER == <<170, 85, 170, 85, 170, 85, 170, 85>>

FRAME_FOOTER == <<85, 170, 85, 170, 85, 170, 85, 170>>

FLAG_FRAGMENT == 1

FLAG_FIRST_FRAG == 2

FLAG_LAST_FRAG == 4

NodeIDSize == 32

\* copy(frame.NodeID[:], []byte(nodeID)) into the zeroed 32-byte array.
CopyNodeID(nodeID) ==
    [i \in 1 .. NodeIDSize |-> IF i <= Len(nodeID) THEN nodeID[i] ELSE 0]

WithCRC(f) == [f EXCEPT !.CRC = calculateCRC(f)]

NewTDMAFrame(slotID, nodeID, data) ==
    WithCRC([Header     |-> FRAME_HEADER,
             SlotID     |-> slotID,
             NodeID     |-> CopyNodeID(nodeID),
             Length     |-> ToU32(Len(data)),
             FragmentID |-> U32(0, 0),
             TotalFrags |-> 1,
             FragIndex  |-> 0,
             Flags      |-> 0,
             Data       |-> data,
             CRC        |-> U32(0, 0),
             Footer     |-> FRAME_FOOTER])

\* NewFragmentTDMAFrame without the LAST_FRAG flag.
NewFragmentTDMAFrameNoLast(slotID, nodeID, fragmentID, totalFrags, fragIndex, data, isFirst, isLast) ==
    WithCRC([Header     |-> FRAME_HEADER,
             SlotID     |-> slotID,
             NodeID     |-> CopyNodeID(nodeID),
             Length     |-> ToU32(Len(data)),
             FragmentID |-> fragmentID,
             TotalFrags |-> totalFrags,
             FragIndex  |-> fragIndex,
             Flags      |-> FLAG_FRAGMENT + (IF isFirst THEN FLAG_FIRST_FRAG ELSE 0),
             Data       |-> data,
             CRC        |-> U32(0, 0),
             Footer     |-> FRAME_FOOTER])

\* The flags are distinct bits, so |= adds a flag that is not yet set.
NewFragmentTDMAFrame(slotID, nodeID, fragmentID, totalFrags, fragIndex, data, isFirst, isLast) ==
    WithCRC([Header     |-> FRAME_HEADER,
             SlotID     |-> slotID,
             NodeID     |-> CopyNodeID(nodeID),
             Length     |-> ToU32(Len(data)),
             FragmentID |-> fragmentID,
             TotalFrags |-> totalFrags,
             FragIndex  |-> fragIndex,
             Flags      |-> FLAG_FRAGMENT
                              + (IF isFirst THEN FLAG_FIRST_FRAG ELSE 0)
                              + (IF isLast THEN FLAG_LAST_FRAG ELSE 0),
             Data       |-> data,
             CRC        |-> U32(0, 0),
             Footer     |-> FRAME_FOOTER])

PutUint16(v) == <<v \div 256, v % 256>>

Uint16(b, offset) == b[offset + 1] * 256 + b[offset + 2]

PutUint32LittleEndian(v) == PutUint16(v.lo) \o PutUint16(v.hi)

PutUint32(v) == PutUint16(v.hi) \o PutUint16(v.lo)

Uint32(b, offset) == U32(Uint16(b, offset), Uint16(b, offset + 2))

\* data[offset : offset+n]
Slice(b, offset, n) == SubSeq(b, offset + 1, offset + n)

\* The layout without the fragment fields: 60 bytes and the payload.
SerializeWithoutFragmentFields(f) ==
    f.Header \o PutUint32(f.SlotID) \o f.NodeID \o PutUint32(f.Length)
        \o f.Data \o PutUint32(f.CRC) \o f.Footer

Serialize(f) ==
    f.Header \o PutUint32(f.SlotID) \o f.NodeID \o PutUint32(f.Length)
        \o PutUint32(f.FragmentID) \o PutUint16(f.TotalFrags)
        \o PutUint16(f.FragIndex) \o PutUint16(f.Flags)
        \o f.Data \o PutUint32(f.CRC) \o f.Footer

\* Bytes before the payload, and bytes after it (CRC and footer).
PrefixSize == 8 + 4 + NodeIDSize + 4 + 4 + 2 + 2 + 2

TrailerSize == 4 + 8

MinFrameSize == 60

DeserializeTDMAFrame(data) ==
    IF Len(data) < MinFrameSize
    THEN [done |-> TRUE, err |-> "TooShort", frame |-> NoFrame]
    ELSE LET length  == Uint32(data, 44)
             dataLen == ToInt(length)
             offset  == PrefixSize
         IN  IF offset + dataLen + TrailerSize > Len(data)
             THEN [done |-> TRUE, err |-> "LengthMismatch", frame |-> NoFrame]
             ELSE [done  |-> TRUE,
                   err   |-> "",
                   frame |->
                     [Header     |-> Slice(data, 0, 8),
                      SlotID     |-> Uint32(data, 8),
                      NodeID     |-> Slice(data, 12, NodeIDSize),
                      Length     |-> length,
                      FragmentID |-> Uint32(data, 48),
                      TotalFrags |-> Uint16(data, 52),
                      FragIndex  |-> Uint16(data, 54),
                      Flags      |-> Uint16(data, 56),
                      Data       |-> Slice(data, offset, dataLen),
                      CRC        |-> Uint32(data, offset + dataLen),
                      Footer     |-> Slice(data, offset + dataLen + 4, 8)]]

\* Validate with the checksum compared before the footer.
ValidateChecksumFirst(f) ==
    IF f.Header # FRAME_HEADER THEN "InvalidHeader"
    ELSE IF calculateCRC(f) # f.CRC THEN "ChecksumMismatch"
    ELSE IF f.Footer # FRAME_FOOTER THEN "InvalidFooter"
    ELSE IF ToU32(Len(f.Data)) # f.Length THEN "LengthMismatch"
    ELSE ""

\* Validate: "" when the frame passes, else the first check that fails.
Validate(f) ==
    IF f.Header # FRAME_HEADER THEN "InvalidHeader"
    ELSE IF f.Footer # FRAME_FOOTER THEN "InvalidFooter"
    ELSE IF calculateCRC(f) # f.CRC THEN "ChecksumMismatch"
    ELSE IF ToU32(Len(f.Data)) # f.Length THEN "LengthMismatch"
    ELSE ""

\* ------------------------------------------------------- codec: the inputs

MaxPayload == 2

MaxExtra == 1

PayloadBytes == {0, 170}

RECURSIVE SeqsUpTo(_, _)
\* Every byte sequence over S of length at most n.
SeqsUpTo(S, n) ==
    IF n = 0 THEN {<<>>}
    ELSE LET shorter == SeqsUpTo(S, n - 1)
         IN  shorter \cup {Append(s, b) : s \in shorter, b \in S}

Payloads == SeqsUpTo(PayloadBytes, MaxPayload)

\* Slot ids whose four bytes differ, the extremes included.
CodecSlotIDs == {U32(0, 0), U32(0, 1), U32(258, 772), U32(Half - 1, Half - 1)}

\* "", "GS_A", and a name one byte longer than the field.
CodecNodeIDs ==
    {<<>>, <<71, 83, 95, 65>>, [i \in 1 .. (NodeIDSize + 1) |-> 65]}

Frames ==
    {NewTDMAFrame(s, n, d) : s \in CodecSlotIDs, n \in CodecNodeIDs, d \in Payloads}
    \cup
    UNION {{NewFragmentTDMAFrame(s, n, U32(1, 7), 2, i, d, first, last) :
                s \in CodecSlotIDs, n \in CodecNodeIDs, d \in Payloads} :
           i \in {0, 1}, first \in BOOLEAN, last \in BOOLEAN}

CodecInit ==
    /\ NewTDMAScheduler(1)
    /\ NoStations
    /\ frame \in Frames
    /\ wire = NoWire
    /\ dec = NoDecode
    /\ RxIdle
    /\ FragIdle
    /\ LockIdle
    /\ RunIdle
    /\ HistIdle

\* frame.Serialize(): the buffer is the frame's encoding.
SerializeFrame ==
    /\ wire.from = "none"
    /\ wire' = [bytes |-> Serialize(frame), from |-> "serialize"]
    /\ dec' = NoDecode
    /\ UNCHANGED frame

\* conn.Read returns only the first k bytes of what was sent.
ReadShort(k) ==
    /\ wire.from # "none"
    /\ k < Len(wire.bytes)
    /\ wire' = [bytes |-> SubSeq(wire.bytes, 1, k), from |-> "read"]
    /\ dec' = NoDecode
    /\ UNCHANGED frame

\* conn.Read returns the whole frame sent and a byte of what the peer sent next.
ReadCoalesced(b) ==
    /\ wire.from # "none"
    /\ Len(wire.bytes) >= Len(Serialize(frame))
    /\ Len(wire.bytes) < Len(Serialize(frame)) + MaxExtra
    /\ wire' = [bytes |-> Append(wire.bytes, b), from |-> "read"]
    /\ dec' = NoDecode
    /\ UNCHANGED frame

Decode ==
    /\ wire.from # "none"
    /\ ~dec.done
    /\ dec' = DeserializeTDMAFrame(wire.bytes)
    /\ UNCHANGED <<frame, wire>>

CodecNext ==
    \/ SerializeFrame /\ UNCHANGED <<schedVars, hubVars, rxVars, fragVars, lockVars, runVars, histVars>>
    \/ \E k \in {0, MinFrameSize - 1, MinFrameSize, Len(wire.bytes) - 1} :
           ReadShort(k) /\ UNCHANGED <<schedVars, hubVars, rxVars, fragVars, lockVars, runVars, histVars>>
    \/ \E b \in PayloadBytes : ReadCoalesced(b) /\ UNCHANGED <<schedVars, hubVars, rxVars, fragVars, lockVars, runVars, histVars>>
    \/ Decode /\ UNCHANGED <<schedVars, hubVars, rxVars, fragVars, lockVars, runVars, histVars>>

SpecCodec == CodecInit /\ [][CodecNext]_vars

\* ------------------------------------------------ frames handed to Validate

\* A field of the frame is overwritten after construction (the fields are
\* exported), leaving the others as the constructor set them.
SetHeader ==
    /\ frame.Header = FRAME_HEADER
    /\ frame' = [frame EXCEPT !.Header[1] = 0]

SetFooter ==
    /\ frame.Footer = FRAME_FOOTER
    /\ frame' = [frame EXCEPT !.Footer[8] = 0]

SetCRC ==
    /\ frame.CRC = calculateCRC(frame)
    /\ frame' = [frame EXCEPT !.CRC.lo = IF @ % 2 = 0 THEN @ + 1 ELSE @ - 1]

SetLength ==
    /\ frame.Length = ToU32(Len(frame.Data))
    /\ frame' = [frame EXCEPT !.Length = ToU32(Len(frame.Data) + 1)]

\* frame.Validate(): the error returned is kept with the frame validated.
CallValidate ==
    /\ ~dec.done
    /\ dec' = [done |-> TRUE, err |-> Validate(frame), frame |-> frame]
    /\ UNCHANGED <<frame, wire>>

ValidateInit ==
    /\ NewTDMAScheduler(1)
    /\ NoStations
    /\ frame \in Frames
    /\ wire = NoWire
    /\ dec = NoDecode
    /\ RxIdle
    /\ FragIdle
    /\ LockIdle
    /\ RunIdle
    /\ HistIdle

ValidateNext ==
    \/ SetHeader /\ wire' = wire /\ dec' = NoDecode /\ UNCHANGED <<schedVars, hubVars, rxVars, fragVars, lockVars, runVars, histVars>>
    \/ SetFooter /\ wire' = wire /\ dec' = NoDecode /\ UNCHANGED <<schedVars, hubVars, rxVars, fragVars, lockVars, runVars, histVars>>
    \/ SetCRC /\ wire' = wire /\ dec' = NoDecode /\ UNCHANGED <<schedVars, hubVars, rxVars, fragVars, lockVars, runVars, histVars>>
    \/ SetLength /\ wire' = wire /\ dec' = NoDecode /\ UNCHANGED <<schedVars, hubVars, rxVars, fragVars, lockVars, runVars, histVars>>
    \/ CallValidate /\ UNCHANGED <<schedVars, hubVars, rxVars, fragVars, lockVars, runVars, histVars>>

SpecValidate == ValidateInit /\ [][ValidateNext]_vars

\* ------------------------------------------------- receivers on a connection

\* []byte(nodeID) of the station names.
NodeBytes ==
    [n \in Stations |->
        CASE n = "GS_A" -> <<71, 83, 95, 65>>
          [] n = "GS_B" -> <<71, 83, 95, 66>>
          [] OTHER      -> <<71, 83, 95, 67>>]

\* strings.TrimRight(s, "\x00"): s up to its last byte that is not zero.
TrimRight(b) ==
    LET kept == {i \in 1 .. Len(b) : b[i] # 0}
        last == IF kept = {} THEN 0
                ELSE CHOOSE i \in kept : \A j \in kept : j <= i
    IN  SubSeq(b, 1, last)

\* frame.GetNodeID(): the name whose bytes the field holds.
GetNodeID(f) ==
    LET id == TrimRight(f.NodeID)
    IN  IF \E n \in Stations : NodeBytes[n] = id
        THEN CHOOSE n \in Stations : NodeBytes[n] = id
        ELSE IF id = <<>> THEN "" ELSE "UNKNOWN"

\* []byte("GET_CURRENT_SLOT")
GET_CURRENT_SLOT ==
    <<71, 69, 84, 95, 67, 85, 82, 82, 69, 78, 84, 95, 83, 76, 79, 84>>

\* processFrame without the comparison of the frame's SlotID with the clock.
processFrameAnySlot(f) ==
    LET quiet == [slots |-> slots, called |-> FALSE, ret |-> ret, reply |-> <<>>]
    IN  IF Validate(f) # "" THEN quiet
        ELSE IF f.Data = GET_CURRENT_SLOT
        THEN [quiet EXCEPT !.reply = <<[text |-> "CURRENT_SLOT", n |-> GlobalSlot]>>]
        ELSE LET r == AllocateTimeSlot(GetNodeID(f), HubPriority)
             IN  [slots  |-> r.slots,
                  called |-> TRUE,
                  ret    |-> [NoCall EXCEPT !.op = "allocate", !.val = <<r.slotID>>,
                                              !.err = r.err, !.path = r.path,
                                              !.freed = r.freed],
                  reply  |-> IF r.err = "" THEN <<[text |-> "ACK_SLOT", n |-> r.slotID]>>
                             ELSE <<>>]

\* SatelliteNode.processFrame: the table it leaves, what AllocateTimeSlot
\* returned if it was called, and the payload written back if one was.
processFrame(f) ==
    LET quiet == [slots |-> slots, called |-> FALSE, ret |-> ret, reply |-> <<>>]
    IN  IF Validate(f) # "" THEN quiet
        ELSE IF f.Data = GET_CURRENT_SLOT
        THEN [quiet EXCEPT !.reply = <<[text |-> "CURRENT_SLOT", n |-> GlobalSlot]>>]
        ELSE IF ToInt(f.SlotID) # GlobalSlot THEN quiet
        ELSE LET r == AllocateTimeSlot(GetNodeID(f), HubPriority)
             IN  [slots  |-> r.slots,
                  called |-> TRUE,
                  ret    |-> [NoCall EXCEPT !.op = "allocate", !.val = <<r.slotID>>,
                                              !.err = r.err, !.path = r.path,
                                              !.freed = r.freed],
                  reply  |-> IF r.err = "" THEN <<[text |-> "ACK_SLOT", n |-> r.slotID]>>
                             ELSE <<>>]

HeadSize == 8

BufferSize == 4096

Min(a, b) == IF a <= b THEN a ELSE b

\* Bytes that have arrived and are not read yet.
Unread == conn.arrived - conn.pos

\* The transport delivers the bytes up to the next point where it cut the
\* stream, or the rest of it.
Arrive ==
    /\ conn.arrived < Len(conn.stream)
    /\ LET later == {c \in conn.cuts : c > conn.arrived} \cup {Len(conn.stream)}
       IN  conn' = [conn EXCEPT !.arrived =
                       CHOOSE c \in later : \A e \in later : c <= e]
    /\ UNCHANGED <<decoded, replies, schedVars>>

\* The header buffer after conn.Read put k bytes into it.
HeadBuffer(k) ==
    [i \in 1 .. HeadSize |-> IF i <= k THEN conn.stream[conn.pos + i] ELSE 0]

\* The first conn.Read of handleConnection and of ReceiveFrame: it returns the
\* k bytes that have arrived, at most 8. handleConnection goes on only with
\* 8 bytes equal to FRAME_HEADER; ReceiveFrame ignores the count and
\* compares the buffer.
ReadHead ==
    /\ conn.phase = "head"
    /\ Unread > 0
    /\ LET k == Min(HeadSize, Unread)
           ok == IF conn.kind = "hub"
                 THEN k = HeadSize /\ HeadBuffer(k) = FRAME_HEADER
                 ELSE HeadBuffer(k) = FRAME_HEADER
       IN  conn' = [conn EXCEPT !.pos = @ + k,
                                !.head = IF ok THEN HeadBuffer(k) ELSE <<>>,
                                !.phase = IF ok THEN "body" ELSE "head"]
    /\ UNCHANGED <<decoded, replies, schedVars>>

\* The second conn.Read, returning the n bytes that have arrived, at most
\* 4096, then DeserializeTDMAFrame on the header and those bytes;
\* handleConnection hands a decoded frame to processFrame, ReceiveFrame
\* validates it.
ReadBody ==
    /\ conn.phase = "body"
    /\ Unread > 0
    /\ LET n == Min(BufferSize, Unread)
           frameData == conn.head \o Slice(conn.stream, conn.pos, n)
           d == DeserializeTDMAFrame(frameData)
           p == processFrame(d.frame)
           hub == conn.kind = "hub" /\ d.err = ""
       IN  /\ decoded' = Append(decoded,
                [from |-> conn.pos - HeadSize, buf |-> frameData,
                 err |-> IF d.err # "" \/ conn.kind = "hub" THEN d.err
                         ELSE Validate(d.frame)])
           /\ slots' = IF hub THEN p.slots ELSE slots
           /\ ret' = IF hub THEN p.ret ELSE ret
           /\ replies' = IF hub THEN replies \o p.reply ELSE replies
    /\ conn' = [conn EXCEPT !.pos = @ + Min(BufferSize, Unread),
                            !.head = <<>>, !.phase = "head"]
    /\ UNCHANGED <<totalSlots, currentSlot, now>>

\* A valid frame with its stored checksum changed in the lowest bit.
BadCRC(f) == [f EXCEPT !.CRC.lo = IF @ % 2 = 0 THEN @ + 1 ELSE @ - 1]

\* What the stations write: data frames in slot 0 and slot 1, a slot query,
\* and two frames no receiver accepts (a wrong checksum, a cut-off frame).
DataFrame(n, slot, data) == NewTDMAFrame(U32(0, slot), NodeBytes[n], data)

ValidWrites ==
    {Serialize(DataFrame("GS_A", 0, <<>>)),
     Serialize(DataFrame("GS_A", 1, <<170, 0>>)),
     Serialize(DataFrame("GS_B", 0, <<170>>)),
     Serialize(DataFrame("GS_B", 0, GET_CURRENT_SLOT))}

InvalidWrites ==
    {Serialize(BadCRC(DataFrame("GS_A", 0, <<170>>))),
     SubSeq(Serialize(DataFrame("GS_A", 0, <<>>)), 1, MinFrameSize - 1)}

\* Where the transport may cut a stream whose first write has n bytes:
\* inside the header, after it, around the end of the first write, and
\* after the header of the second.
CutPoints(n) == {HeadSize - 1, HeadSize, n - 1, n, n + 1, n + HeadSize}

\* The connection carries the concatenation of two writes, cut by the
\* transport at the points of cuts.
Connected(kind, first, second, cuts) ==
    conn = [stream |-> first \o second, pos |-> 0, head |-> <<>>,
            phase |-> "head", kind |-> kind, first |-> Len(first),
            cuts |-> cuts, arrived |-> 0]

StreamInit ==
    /\ NewTDMAScheduler(HubSlots)
    /\ NoStations
    /\ CodecIdle
    /\ \E kind \in {"hub", "ni"}, first \in ValidWrites \cup InvalidWrites,
          second \in ValidWrites :
           \E cuts \in SUBSET CutPoints(Len(first)) :
               Connected(kind, first, second, cuts)
    /\ decoded = <<>>
    /\ replies = <<>>
    /\ FragIdle
    /\ LockIdle
    /\ RunIdle
    /\ HistIdle

\* Last instant of a run of the receivers.
StreamMaxTime == 1

\* Time passes between two reads.
StreamElapse ==
    /\ conn.kind = "hub"
    /\ now < StreamMaxTime
    /\ Elapse
    /\ UNCHANGED rxVars

StreamNext ==
    \/ StreamElapse /\ UNCHANGED <<hubVars, codecVars, fragVars, lockVars, runVars, histVars>>
    \/ Arrive /\ UNCHANGED <<hubVars, codecVars, fragVars, lockVars, runVars, histVars>>
    \/ ReadHead /\ UNCHANGED <<hubVars, codecVars, fragVars, lockVars, runVars, histVars>>
    \/ ReadBody /\ UNCHANGED <<hubVars, codecVars, fragVars, lockVars, runVars, histVars>>

SpecStream == StreamInit /\ [][StreamNext]_vars

\* --------------------------------------------- the checksum and the slot id

\* Longest payload of the frames whose slot id is changed.
MaxCrcPayload == 29

\* Slot ids that differ in bit 0, in bit 28, in bit 29 and in bit 31.
CrcSlotIDs == {U32(0, 0), U32(0, 1), U32(4096, 0), U32(8192, 0), U32(32768, 1)}

CrcFrames ==
    {NewTDMAFrame(s, NodeBytes["GS_A"], [i \in 1 .. n |-> 170]) :
        s \in CrcSlotIDs, n \in {0, 1, MaxCrcPayload - 1, MaxCrcPayload}}

ChecksumInit ==
    /\ NewTDMAScheduler(1)
    /\ NoStations
    /\ frame \in CrcFrames
    /\ wire = NoWire
    /\ dec = NoDecode
    /\ RxIdle
    /\ FragIdle
    /\ LockIdle
    /\ RunIdle
    /\ HistIdle

\* frame.SlotID is overwritten after the frame was built and serialized; the
\* stored CRC stays as the constructor computed it.
SetSlotID(s) ==
    /\ wire.from = "serialize"
    /\ Uint32(wire.bytes, 8) = frame.SlotID
    /\ s # frame.SlotID
    /\ frame' = [frame EXCEPT !.SlotID = s]
    /\ dec' = NoDecode
    /\ UNCHANGED wire

ChecksumNext ==
    \/ SerializeFrame /\ UNCHANGED <<schedVars, hubVars, rxVars, fragVars, lockVars, runVars, histVars>>
    \/ \E s \in CrcSlotIDs :
           SetSlotID(s) /\ UNCHANGED <<schedVars, hubVars, rxVars, fragVars, lockVars, runVars, histVars>>
    \/ CallValidate /\ UNCHANGED <<schedVars, hubVars, rxVars, fragVars, lockVars, runVars, histVars>>

SpecChecksum == ChecksumInit /\ [][ChecksumNext]_vars

\* ------------------------------------------------------ FragmentAssembler

IsFragment(f) == (f.Flags \div FLAG_FRAGMENT) % 2 = 1

IsFirstFragment(f) == (f.Flags \div FLAG_FIRST_FRAG) % 2 = 1

IsLastFragment(f) == (f.Flags \div FLAG_LAST_FRAG) % 2 = 1

\* ceil(n / d) for d > 0.
Ceil(n, d) == (n + d - 1) \div d

\* The i-th piece (from 0) of at most max consecutive bytes.
Chunk(payload, max, i) ==
    SubSeq(payload, i * max + 1, Min((i + 1) * max, Len(payload)))

\* split(payload, maxFragmentPayloadSize, nodeId, slotId), fragmentID being
\* the fresh id it generates: one plain frame when the payload fits in one
\* piece, else the fragments in index order.
split(payload, max, nodeID, slotID, fragmentID) ==
    IF Len(payload) <= max
    THEN <<NewTDMAFrame(slotID, nodeID, payload)>>
    ELSE LET total == Ceil(Len(payload), max)
         IN  [i \in 1 .. total |->
                 NewFragmentTDMAFrame(slotID, nodeID, fragmentID, total, i - 1,
                                      Chunk(payload, max, i - 1),
                                      i = 1, i = total)]

RECURSIVE Concat(_, _)
\* The payloads of indices 0 .. n-1, in index order.
Concat(parts, n) ==
    IF n = 0 THEN <<>> ELSE Concat(parts, n - 1) \o parts[n - 1]

\* m with key k set to v.
Put(m, k, v) == [x \in DOMAIN m \cup {k} |-> IF x = k THEN v ELSE m[x]]

\* m without key k.
Remove(m, k) == [x \in DOMAIN m \ {k} |-> m[x]]

\* feed(frame, now) on the assembler table asm: the table after the call and
\* what the call returns.
feed(asm, f, t) ==
    LET key   == f.FragmentID
        entry == IF key \in DOMAIN asm THEN asm[key]
                 ELSE [expectedTotal |-> f.TotalFrags, parts |-> <<>>,
                       firstSeenAt |-> t]
        parts == Put(entry.parts, f.FragIndex, f.Data)
    IN  IF Cardinality(DOMAIN parts) = entry.expectedTotal
        THEN [assemblies |-> Remove(asm, key), result |-> "payload",
              payload |-> Concat(parts, entry.expectedTotal)]
        ELSE [assemblies |-> Put(asm, key, [entry EXCEPT !.parts = parts]),
              result |-> "incomplete", payload |-> <<>>]

\* Longest payload split.
MaxMessage == 5

\* Largest maxFragmentPayloadSize.
MaxChunk == 2

\* Payloads whose bytes all differ, so that a misplaced piece shows.
Messages ==
    {[payload |-> [i \in 1 .. n |-> i], max |-> m] :
        n \in 0 .. MaxMessage, m \in 1 .. MaxChunk}

FreshFragmentID == U32(1, 7)

FragInit ==
    /\ NewTDMAScheduler(1)
    /\ NoStations
    /\ CodecIdle
    /\ RxIdle
    /\ message \in Messages
    /\ fragments = <<>>
    /\ assemblies = <<>>
    /\ fed = NoFeed
    /\ LockIdle
    /\ RunIdle
    /\ HistIdle

Split ==
    /\ fragments = <<>>
    /\ fragments' = split(message.payload, message.max, NodeBytes["GS_A"],
                          U32(0, 1), FreshFragmentID)
    /\ UNCHANGED <<message, assemblies, fed>>

\* The i-th frame is delivered to the assembler (again, if it was before).
Feed(i) ==
    /\ fed.result # "payload"
    /\ LET r == feed(assemblies, fragments[i], now)
       IN  /\ assemblies' = r.assemblies
           /\ fed' = [result  |-> r.result,
                      payload |-> r.payload,
                      order   |-> IF \E j \in 1 .. Len(fed.order) : fed.order[j] = i
                                  THEN fed.order ELSE Append(fed.order, i)]
    /\ UNCHANGED <<message, fragments>>

FragNext ==
    \/ Split /\ UNCHANGED <<schedVars, hubVars, codecVars, rxVars, lockVars, runVars, histVars>>
    \/ \E i \in 1 .. Len(fragments) :
           Feed(i) /\ UNCHANGED <<schedVars, hubVars, codecVars, rxVars, lockVars, runVars, histVars>>

SpecFrag == FragInit /\ [][FragNext]_vars

\* ------------------------------------------------- scheduler: properties

IsAssigned(sl, i) == sl[i].Status = "ASSIGNED"

IsFree(sl, i) == sl[i].Status = "FREE"

\* nodeID owns an ASSIGNED slot younger than 10 slot durations.
OwnsFresh(nodeID) ==
    \E i \in SlotIds :
        /\ IsAssigned(slots, i)
        /\ slots[i].NodeID = nodeID
        /\ now - slots[i].StartTime < StaleFactor * SlotDuration

OwnsAny(nodeID) ==
    \E i \in SlotIds : IsAssigned(slots, i) /\ slots[i].NodeID = nodeID

\* The table with every slot nodeID owns marked FREE with no owner.
Reclaimed(nodeID) ==
    [i \in SlotIds |->
        IF IsAssigned(slots, i) /\ slots[i].NodeID = nodeID
        THEN [slots[i] EXCEPT !.Status = "FREE", !.NodeID = ""]
        ELSE slots[i]]

\* First FREE slot of sl in ring order from cur: cur, cur+1 mod N, ...
FirstFreeFrom(sl, cur) ==
    LET k == CHOOSE k \in 0 .. (totalSlots - 1) :
                 /\ IsFree(sl, (cur + k) % totalSlots)
                 /\ \A j \in 0 .. (k - 1) : ~IsFree(sl, (cur + j) % totalSlots)
    IN  (cur + k) % totalSlots

\* sl with slot i handed to nodeID at the present instant, nothing else changed.
Handed(sl, i, nodeID) ==
    [j \in SlotIds |->
        IF j = i
        THEN [SlotID |-> sl[i].SlotID, NodeID |-> nodeID, Status |-> "ASSIGNED",
              StartTime |-> now, FragmentID |-> sl[i].FragmentID]
        ELSE sl[j]]

PointerKept == currentSlot' = currentSlot /\ totalSlots' = totalSlots

\* C1 as stated: when allocate is called by a node that owns no fresh slot and
\* some slot is Free, the first Free slot in ring order from currentSlot is
\* assigned to the caller with assignedAt = now, its id is returned, and no
\* other slot changes.
C1_FirstFreeNoOtherChange ==
    [][\A n \in Nodes, p \in Priorities :
          (Allocate(n, p) /\ ~OwnsFresh(n) /\ \E i \in SlotIds : IsFree(slots, i))
          => LET f == FirstFreeFrom(slots, currentSlot)
             IN  /\ ret'.err = ""
                 /\ ret'.val = <<f>>
                 /\ slots' = Handed(slots, f, n)]_vars

\* C1 amended: when allocate is called by a node that owns no fresh slot, the
\* caller's stale slots are first marked Free with no owner; if the table then
\* has a Free slot, the first one in ring order from currentSlot is assigned to
\* the caller with assignedAt = now, its id is returned, and no slot other than
\* that one and the released stale ones changes.
C1_FirstFreeAfterReclaim ==
    [][\A n \in Nodes, p \in Priorities :
          (Allocate(n, p) /\ ~OwnsFresh(n)
              /\ \E i \in SlotIds : IsFree(Reclaimed(n), i))
          => LET f == FirstFreeFrom(Reclaimed(n), currentSlot)
             IN  /\ ret'.err = ""
                 /\ ret'.val = <<f>>
                 /\ slots' = Handed(Reclaimed(n), f, n)
                 /\ PointerKept]_vars

\* C1 witness: an allocate released a stale slot of the caller and found the
\* first free slot two or more positions past the pointer.
C1_Witness ==
    /\ ret.op = "allocate"
    /\ ret.path = "scan"
    /\ ret.freed >= 1
    /\ ret.val[1] = (currentSlot + 2) % totalSlots

\* C2 as stated: if the caller already owns an Assigned slot younger than
\* 10 slot durations, allocate returns the id of such a slot and leaves the
\* whole table and the pointer unchanged.
C2_IdempotentReallocation ==
    [][\A n \in Nodes, p \in Priorities :
          (Allocate(n, p) /\ OwnsFresh(n))
          => /\ ret'.err = ""
             /\ \E i \in SlotIds :
                    /\ ret'.val = <<i>>
                    /\ IsAssigned(slots, i)
                    /\ slots[i].NodeID = n
                    /\ now - slots[i].StartTime < StaleFactor * SlotDuration
             /\ slots' = slots
             /\ PointerKept]_vars

\* C5: an allocate that fails with NoSlotAvailable leaves the table and the
\* pointer as they were, and it fails only when every slot is Assigned to a
\* node other than the caller and no assignment is older than 5 slot durations.
C5_FailedAllocateMutatesNothing ==
    [][\A n \in Nodes, p \in Priorities :
          (Allocate(n, p) /\ ret'.err # "")
          => /\ ret'.err = "NoSlotAvailable"
             /\ ret'.val = <<-1>>
             /\ slots' = slots
             /\ PointerKept
             /\ \A i \in SlotIds :
                    /\ IsAssigned(slots, i)
                    /\ slots[i].NodeID # n
                    /\ now - slots[i].StartTime <= PreemptFactor * SlotDuration]_vars

\* C5 witness: an allocate has failed on a full table whose oldest
\* assignment is exactly 5 slot durations old.
C5_Witness ==
    /\ ret.op = "allocate"
    /\ ret.err = "NoSlotAvailable"
    /\ totalSlots >= 2
    /\ \E i \in SlotIds : now - slots[i].StartTime = PreemptFactor * SlotDuration

\* The ASSIGNED slots of sl with the earliest StartTime.
OldestAssigned(sl) ==
    {i \in SlotIds :
        /\ IsAssigned(sl, i)
        /\ \A j \in SlotIds : IsAssigned(sl, j) => sl[i].StartTime <= sl[j].StartTime}

\* C6: when allocate finds no Free slot (the caller owns no fresh slot and,
\* its stale slots released, no slot is Free), the Assigned slot with the
\* oldest assignedAt is reassigned to the caller if and only if its age
\* strictly exceeds 5 slot durations; then its assignedAt becomes now and no
\* other slot changes, and otherwise nothing changes.
C6_PreemptOldestOnly ==
    [][\A n \in Nodes, p \in Priorities :
          (Allocate(n, p) /\ ~OwnsFresh(n)
              /\ \A i \in SlotIds : ~IsFree(Reclaimed(n), i))
          => IF \E i \in OldestAssigned(slots) :
                    now - slots[i].StartTime > PreemptFactor * SlotDuration
             THEN /\ ret'.err = ""
                  /\ \E i \in OldestAssigned(slots) :
                         /\ ret'.val = <<i>>
                         /\ slots' = Handed(slots, i, n)
                  /\ PointerKept
             ELSE /\ ret'.err # ""
                  /\ slots' = slots
                  /\ PointerKept]_vars

\* C6 witness: an allocate has taken over a slot while another slot, younger
\* than the one taken, stays with its owner.
C6_Witness ==
    /\ ret.op = "allocate"
    /\ ret.path = "preempt"
    /\ \E i \in SlotIds :
           /\ <<i>> # ret.val
           /\ IsAssigned(slots, i)
           /\ slots[i].NodeID # slots[ret.val[1]].NodeID
           /\ now - slots[i].StartTime > PreemptFactor * SlotDuration

\* Window starts i with i + count <= N whose count slots are all Free.
FreeWindows(count) ==
    {i \in 0 .. (totalSlots - count) :
        \A k \in i .. (i + count - 1) : IsFree(slots, k)}

\* C7: allocateConsecutive(nodeID, count), count >= 1, either returns the
\* lowest window [i, i+count-1], i + count <= N, of Free slots and assigns
\* exactly those slots to nodeID, or fails with InsufficientConsecutiveSlots
\* and changes nothing; the pointer plays no part.
C7_ConsecutiveAllOrNothing ==
    [][\A n \in Nodes, c \in 1 .. (MaxSlots + 1) :
          AllocateConsecutive(n, c)
          => IF FreeWindows(c) # {}
             THEN LET i == CHOOSE i \in FreeWindows(c) :
                               \A k \in FreeWindows(c) : i <= k
                  IN  /\ ret'.err = ""
                      /\ ret'.val = [j \in 1 .. c |-> i + j - 1]
                      /\ \A k \in SlotIds :
                             slots'[k] = IF k \in i .. (i + c - 1)
                                         THEN [slots[k] EXCEPT !.NodeID = n,
                                                               !.Status = "ASSIGNED",
                                                               !.StartTime = now]
                                         ELSE slots[k]
                      /\ PointerKept
             ELSE /\ ret'.err = "InsufficientConsecutiveSlots"
                  /\ ret'.val = <<>>
                  /\ slots' = slots
                  /\ PointerKept]_vars

\* C7 witness: a window of two or more slots was assigned that starts above
\* slot 0 and below the pointer.
C7_Witness ==
    /\ ret.op = "consecutive"
    /\ ret.err = ""
    /\ Len(ret.val) >= 2
    /\ ret.val[1] > 0
    /\ currentSlot > ret.val[1]
    /\ \A j \in 1 .. Len(ret.val) :
           IsAssigned(slots, ret.val[j]) /\ slots[ret.val[j]].StartTime = now

\* C8: release(slotID) with slotID in [0, N) leaves that slot Free with no
\* owner and carried fragment id 0 (nothing changes if it was Free already)
\* and touches no other slot nor the pointer; outside [0, N) it fails with
\* InvalidSlotId and changes nothing.
C8_ReleaseFrame ==
    [][\A s \in -1 .. MaxSlots :
          Release(s)
          => IF s \in SlotIds
             THEN /\ ret'.err = ""
                  /\ IsFree(slots', s)
                  /\ slots'[s].NodeID = ""
                  /\ slots'[s].FragmentID = 0
                  /\ \A i \in SlotIds \ {s} : slots'[i] = slots[i]
                  /\ IsFree(slots, s) => slots' = slots
                  /\ PointerKept
             ELSE /\ ret'.err = "InvalidSlotId"
                  /\ slots' = slots
                  /\ PointerKept]_vars

\* C8 witness: after a successful release a slot that had been assigned is
\* Free with no owner while another slot keeps its owner.
C8_Witness ==
    /\ ret.op = "release"
    /\ ret.err = ""
    /\ \E i, j \in SlotIds :
           /\ IsFree(slots, i) /\ slots[i].NodeID = "" /\ slots[i].StartTime # ZeroTime
           /\ IsAssigned(slots, j)

\* C3: over any sequence of allocate calls by distinct owners whose
\* assignments never expire, interleaved with ticks, no two distinct owners
\* have been returned the same slot id, and the snapshot maps every returned
\* slot id to the one owner it was returned to.
C3_AllocationExclusive ==
    /\ \A a, b \in Stations :
           (granted[a] # -1 /\ granted[a] = granted[b]) => a = b
    /\ \A a \in Stations :
           granted[a] # -1
           => /\ granted[a] \in DOMAIN GetSchedule
              /\ GetSchedule[granted[a]] = a

\* C3 witness: two owners hold different slots and a third owner's allocate
\* has just failed on the full table, the first assignment 5 slot durations old.
C3_Witness ==
    /\ ret.op = "allocate"
    /\ ret.err = "NoSlotAvailable"
    /\ \E a, b \in Stations :
           /\ a # b
           /\ granted[a] # -1 /\ granted[b] # -1
           /\ granted[a] # granted[b]
           /\ now - slots[granted[a]].StartTime = PreemptFactor * SlotDuration

\* C4: with all nodes on one clock, no two ground stations hold the same
\* slot id as the transmit slot each learned from its latest ACK_SLOT_<n>.
C4_NoSharedTransmitSlot ==
    \A a, b \in Stations :
        (a # b /\ acked[a] /\ acked[b]) => gsSlot[a] # gsSlot[b]

\* ---------------------------------------------------- codec: properties

FrameFields ==
    {"Header", "SlotID", "NodeID", "Length", "FragmentID", "TotalFrags",
     "FragIndex", "Flags", "Data", "CRC", "Footer"}

\* The frame the decoder returned has every field of a TDMAFrame.
Populated(f) == DOMAIN f = FrameFields

\* C9: decoding the encoding of a well-formed frame succeeds and returns a
\* frame equal to the original in each of its eleven fields: header, slot id,
\* node id, length, fragment id, total fragments, fragment index, flags,
\* payload, checksum and footer.
C9_RoundTrip ==
    (dec.done /\ wire.from = "serialize" /\ Validate(frame) = "")
        => /\ dec.err = ""
           /\ Populated(dec.frame)
           /\ \A field \in FrameFields : dec.frame[field] = frame[field]

\* A fragment frame with a full node id field, a slot id of four different
\* bytes and a payload of the greatest length has been encoded and decoded.
C9_Witness ==
    /\ dec.done
    /\ wire.from = "serialize"
    /\ Validate(frame) = ""
    /\ frame.SlotID = U32(258, 772)
    /\ frame.NodeID[NodeIDSize] # 0
    /\ frame.Flags = FLAG_FRAGMENT + FLAG_FIRST_FRAG + FLAG_LAST_FRAG
    /\ Len(frame.Data) = MaxPayload
    /\ dec.err = ""

\* C10: decoding a buffer shorter than the minimum size fails with TooShort;
\* decoding a buffer whose bytes after the fixed prefix are not exactly the
\* stored length plus the twelve bytes of checksum and footer, fewer or more,
\* fails with LengthMismatch; otherwise a fully populated frame is returned.
C10_DecodeExactLength ==
    dec.done =>
        LET n == Len(wire.bytes)
        IN  IF n < MinFrameSize
            THEN dec.err = "TooShort" /\ dec.frame = NoFrame
            ELSE IF n - PrefixSize # ToInt(Uint32(wire.bytes, 44)) + TrailerSize
            THEN dec.err = "LengthMismatch" /\ dec.frame = NoFrame
            ELSE dec.err = "" /\ Populated(dec.frame)

\* ------------------------------------------------- receivers: properties

\* The two writes the connection carries.
Writes ==
    <<SubSeq(conn.stream, 1, conn.first),
      SubSeq(conn.stream, conn.first + 1, Len(conn.stream))>>

\* All bytes sent have been read.
Drained == conn.phase # "closed" /\ conn.pos = Len(conn.stream)

\* C11: however the transport splits or coalesces the bytes of two valid
\* encoded frames, the receiver passes to the decoder exactly the encoding of
\* the first frame and then exactly the encoding of the second, never a
\* partial or merged buffer, and none is missing once all bytes are read.
C11_StreamFraming ==
    (conn.phase # "closed" /\ \A i \in 1 .. 2 : Writes[i] \in ValidWrites)
        => /\ Len(decoded) <= 2
           /\ \A i \in 1 .. Len(decoded) : decoded[i].buf = Writes[i]
           /\ Drained => (Len(decoded) = 2 /\ conn.phase = "head")

\* ---------------------------------------------------- Validate: properties

HeaderMatches(f) == f.Header = FRAME_HEADER

FooterMatches(f) == f.Footer = FRAME_FOOTER

ChecksumMatches(f) == calculateCRC(f) = f.CRC

LengthMatches(f) == ToInt(f.Length) = Len(f.Data)

WellFormed(f) ==
    HeaderMatches(f) /\ FooterMatches(f) /\ ChecksumMatches(f) /\ LengthMatches(f)

\* The error of the first check that fails, in the order header, footer,
\* checksum, length.
FirstFailure(f) ==
    CHOOSE e \in {"InvalidHeader", "InvalidFooter", "ChecksumMismatch", "LengthMismatch"} :
        /\ e = "InvalidHeader" <=> ~HeaderMatches(f)
        /\ e = "InvalidFooter" <=> (HeaderMatches(f) /\ ~FooterMatches(f))
        /\ e = "ChecksumMismatch" <=>
               (HeaderMatches(f) /\ FooterMatches(f) /\ ~ChecksumMatches(f))

Validated == dec.done /\ dec.frame = frame

\* C12: Validate returns ok exactly for a well-formed frame (both sentinels
\* match, the recomputed checksum equals the stored one, Length is the
\* payload's length); for any other frame it returns the error of the first
\* failing check in the order InvalidHeader, InvalidFooter, ChecksumMismatch,
\* LengthMismatch; a frame as a constructor built it validates ok.
C12_ValidateFirstFailure ==
    Validated =>
        /\ dec.err = "" <=> WellFormed(frame)
        /\ ~WellFormed(frame) => dec.err = FirstFailure(frame)
        /\ frame \in Frames => dec.err = ""

\* A frame with a wrong footer, a wrong checksum and a wrong length has been
\* validated, and so has a frame as the constructor built it.
C12_Witness ==
    /\ Validated
    /\ HeaderMatches(frame)
    /\ ~FooterMatches(frame)
    /\ ~ChecksumMatches(frame)
    /\ ~LengthMatches(frame)

\* ------------------------------------------------------- clock: properties

ClockCalled == ret.op = "GetGlobalSlotID"

ClockReturned == ClockCalled /\ Len(ret.val) = 4

\* C13: for every instant, before the epoch included, and every
\* slotDuration > 0 and totalSlots > 0, the slot returned is
\* floor((now - epoch) / slotDuration) mod totalSlots, lies in
\* 0 .. totalSlots-1, and is one more (modulo totalSlots) a slotDuration later.
C13_ClockFloorMod ==
    (ClockCalled /\ ret.val[2] > 0 /\ ret.val[3] > 0) =>
        LET t == ret.val[1]
            d == ret.val[2]
            n == ret.val[3]
        IN  /\ ClockReturned
            /\ ret.val[4] = ((t - TDMA_EPOCH) \div d) % n
            /\ ret.val[4] \in 0 .. (n - 1)
            /\ SlotAt(t + d, d, n) = (ret.val[4] + 1) % n

\* C14: a call with slotDuration <= 0 or totalSlots <= 0 fails with
\* InvalidConfiguration, without a crash and without a slot index; so does
\* the construction of a scheduler with N <= 0.
C14_InvalidConfiguration ==
    /\ (ClockCalled /\ (ret.val[2] <= 0 \/ ret.val[3] <= 0))
           => (ret.err = "InvalidConfiguration" /\ ~ClockReturned)
    /\ (ret.op = "new" /\ totalSlots <= 0) => ret.err = "InvalidConfiguration"

\* --------------------------------------------- FragmentAssembler: properties

SplitDone == Len(fragments) > 0

\* The frames are the fragments 0 .. total-1 of one fragmentId, flagged
\* FRAGMENT, the first FIRST_FRAGMENT and the last LAST_FRAGMENT.
FragmentSequence(total) ==
    /\ Len(fragments) = total
    /\ \A i \in 1 .. Len(fragments) :
          /\ fragments[i].FragmentID = fragments[1].FragmentID
          /\ fragments[i].FragIndex = i - 1
          /\ fragments[i].TotalFrags = total
          /\ IsFragment(fragments[i])
          /\ IsFirstFragment(fragments[i]) <=> i = 1
          /\ IsLastFragment(fragments[i]) <=> i = Len(fragments)

\* One frame that is not a fragment carries the whole payload.
SingleFrame ==
    /\ Len(fragments) = 1
    /\ ~IsFragment(fragments[1])
    /\ ~IsFirstFragment(fragments[1])
    /\ ~IsLastFragment(fragments[1])
    /\ fragments[1].TotalFrags = 1
    /\ fragments[1].FragIndex = 0
    /\ fragments[1].Data = message.payload

AllFed == \A i \in 1 .. Len(fragments) : \E j \in 1 .. Len(fed.order) : fed.order[j] = i

\* feed returns incomplete until every index has been fed, then the
\* original payload, and the assembly is gone.
FeedReassembles ==
    fed.result # "none" =>
        IF AllFed
        THEN /\ fed.result = "payload"
             /\ fed.payload = message.payload
             /\ fragments[1].FragmentID \notin DOMAIN assemblies
        ELSE /\ fed.result = "incomplete"
             /\ fragments[1].FragmentID \in DOMAIN assemblies

\* C15 as stated: split yields ceil(len(payload)/maxFragmentPayloadSize)
\* frames of one fragmentId with indices 0 .. total-1, FRAGMENT on all,
\* FIRST_FRAGMENT only on index 0, LAST_FRAGMENT only on the last; fed in any
\* order into a fresh assembler they give incomplete until the last missing
\* index arrives, then the original payload, and the assembly is removed.
C15_SplitFeedRoundTrip ==
    SplitDone =>
        /\ FragmentSequence(Ceil(Len(message.payload), message.max))
        /\ FeedReassembles

\* C15 amended: the fragment sequence is what split yields for a payload
\* longer than maxFragmentPayloadSize; a payload that fits in one piece
\* gives a single frame that is not a fragment; the feed part is unchanged.
C15_SplitFeedRoundTripOversized ==
    SplitDone =>
        /\ IF Len(message.payload) > message.max
           THEN FragmentSequence(Ceil(Len(message.payload), message.max))
           ELSE SingleFrame
        /\ FeedReassembles

\* Three fragments or more were fed last fragment first and the payload came
\* back.
C15_Witness ==
    /\ Len(fragments) >= 3
    /\ fed.result = "payload"
    /\ fed.order[1] = Len(fragments)
    /\ fed.payload = message.payload

\* ------------------------------------------------ encoded size: properties

Serialized == wire.from = "serialize"

Holds(t) == mu.writer = t \/ t \in mu.readers

\* C17: scheduler calls are atomic with respect to each other: when a call
\* of allocate, allocateConsecutive, release, tick or snapshot returns, the
\* table, the pointer and the value returned are those of the call run alone
\* on the table it found at its Lock, no call starts on a half-applied
\* table, and no connection task holds the lock while it reads from or
\* writes to its connection.
C17_CallsAreAtomic ==
    /\ \A t \in DOMAIN task :
          /\ task[t].pc = "done" =>
                /\ slots = task[t].serial.slots
                /\ currentSlot = task[t].serial.currentSlot
                /\ task[t].got = task[t].serial.got
          /\ task[t].pc \in {"read", "write", "wait"} => ~Holds(t)
          /\ (InCall(t) /\ task[t].call.op # "snapshot") =>
                \A u \in DOMAIN task : (u # t) => ~InCall(u)

\* A connection task is between the two halves of AllocateConsecutiveSlots,
\* one slot of the window assigned and the next still FREE, after a tick and
\* while the other goroutines are outside the scheduler.
C17_Witness ==
    /\ DOMAIN task = Tasks
    /\ currentSlot = 1
    /\ \E t \in ConnTasks :
          /\ task[t].pc = "mid"
          /\ task[t].call.op = "consecutive"
          /\ task[t].win # -1
          /\ slots[task[t].win].NodeID = t
          /\ slots[task[t].win + 1].Status = "FREE"
          /\ Holds(t)
          /\ \A u \in Tasks \ {t} : ~InCall(u) /\ ~Holds(u)

\* ------------------------------------------------ hub admission: properties

\* C18: the scheduler's currentSlot is the slot of the clock function, the
\* value the hub's admission check compares a frame's slotId against.
C18_PointerFollowsClock == currentSlot = GlobalSlot

\* The frame the hub decoded in this step, and whether it went on to
\* processFrame as a valid frame that is not the slot query.
Handled == decoded'[Len(decoded')]

HandledFrame == DeserializeTDMAFrame(Handled.buf).frame

HubHandlesData ==
    /\ conn.kind = "hub"
    /\ Len(decoded') = Len(decoded) + 1
    /\ Handled.err = ""
    /\ Validate(HandledFrame) = ""
    /\ HandledFrame.Data # GET_CURRENT_SLOT

\* C19: for a valid non-control frame the hub calls allocate for the frame's
\* nodeId, and replies ACK_SLOT_<n> with the id allocate returned, only if
\* the frame's slotId is the clock slot at processing time; a frame of
\* another slot changes nothing in the scheduler and gets no reply.
C19_HubAdmission ==
    [][HubHandlesData =>
          IF ToInt(HandledFrame.SlotID) = GlobalSlot
          THEN /\ ret'.op = "allocate"
               /\ ret'.err = "" =>
                     /\ slots'[ret'.val[1]].NodeID = GetNodeID(HandledFrame)
                     /\ replies' = Append(replies, [text |-> "ACK_SLOT", n |-> ret'.val[1]])
               /\ ret'.err # "" => replies' = replies
          ELSE /\ UNCHANGED <<totalSlots, slots, currentSlot, ret>>
               /\ replies' = replies]_vars

\* A frame of slot 1 was refused at instant 0 or admitted at instant 1, and
\* the hub has acknowledged a frame.
C19_Witness ==
    /\ conn.kind = "hub"
    /\ now = 1
    /\ Len(decoded) = 2
    /\ Len(replies) = 1
    /\ replies[1].text = "ACK_SLOT"
    /\ \E i \in 1 .. 2 : decoded[i].err = "" /\ DeserializeTDMAFrame(decoded[i].buf).frame.SlotID = U32(0, 1)

\* --------------------------------------------- failed frames: properties

\* The hub handled a buffer in this step that failed decode or Validate.
HubDropsFrame ==
    /\ conn.kind = "hub"
    /\ Len(decoded') = Len(decoded) + 1
    /\ Handled.err # "" \/ Validate(HandledFrame) # ""

\* The first write is a whole frame that decodes and fails Validate.
FirstWriteFailsValidate ==
    /\ conn.kind = "hub"
    /\ DeserializeTDMAFrame(Writes[1]).err = ""
    /\ Validate(DeserializeTDMAFrame(Writes[1]).frame) # ""

\* C20: a frame that fails decode or Validate is dropped with the scheduler's
\* table and pointer unchanged and no reply written, and the receive loop
\* goes on: the valid frame that follows on the connection is still
\* processed.
C20_FailuresAreLocal ==
    /\ [][HubDropsFrame =>
             /\ UNCHANGED <<totalSlots, slots, currentSlot>>
             /\ replies' = replies]_vars
    /\ []((FirstWriteFailsValidate /\ Drained) =>
             \E k \in 1 .. Len(decoded) :
                 decoded[k].buf = Writes[2] /\ decoded[k].err = "")

\* ------------------------------------------------ cancellation: properties

\* C21: once Stop has been called currentSlot never advances again, and the
\* call of Stop leaves every ASSIGNED slot ASSIGNED to its owner.
C21_StopHaltsPointer ==
    [][/\ stopped => currentSlot' = currentSlot
       /\ (~stopped /\ stopped') => slots' = slots]_vars

\* ----------------------------------------------------- the tick: properties

\* C22: tick moves currentSlot to the next slot, slot N-1 being followed by
\* slot 0, and changes no slot record; allocate, allocateConsecutive, release
\* and snapshot never change currentSlot; currentSlot is in 0 .. N-1 in every
\* reachable state.
C22_TickAdvancesPointer ==
    /\ [][/\ ret'.op = "tick" =>
                /\ currentSlot' = IF currentSlot + 1 = totalSlots THEN 0
                                  ELSE currentSlot + 1
                /\ slots' = slots
          /\ ret'.op \in {"allocate", "consecutive", "release", "snapshot"} =>
                currentSlot' = currentSlot]_vars
    /\ [](currentSlot \in 0 .. (totalSlots - 1))

\* A tick has taken the pointer from the last slot back to slot 0 of a table
\* that holds an assignment.
C22_Witness ==
    /\ ret.op = "tick"
    /\ totalSlots >= 2
    /\ currentSlot = 0
    /\ \E i \in SlotIds : slots[i].Status = "ASSIGNED"

\* --------------------------------------------------- the table: properties

\* C23: the table holds exactly the N records of ids 0 .. N-1; each record
\* is FREE or ASSIGNED and nothing else; a FREE record has an empty owner; an
\* ASSIGNED record's owner is the nodeID of the call that last assigned it.
C23_SlotTableInvariant ==
    /\ DOMAIN slots = 0 .. (totalSlots - 1)
    /\ \A i \in DOMAIN slots :
          /\ slots[i].SlotID = i
          /\ slots[i].Status \in {"FREE", "ASSIGNED"}
          /\ slots[i].Status = "FREE" => slots[i].NodeID = ""
          /\ slots[i].Status = "ASSIGNED" =>
                (i \in DOMAIN assigner /\ slots[i].NodeID = assigner[i])

\* A slot taken over from its owner is held by the node that took it, next
\* to a slot that still belongs to another node.
C23_Witness ==
    /\ ret.op = "allocate"
    /\ ret.path = "preempt"
    /\ slots[ret.val[1]].NodeID = assigner[ret.val[1]]
    /\ \E i \in DOMAIN slots :
          /\ slots[i].Status = "ASSIGNED"
          /\ slots[i].NodeID # slots[ret.val[1]].NodeID

\* ------------------------------------------------- the checksum: properties

\* The frame was validated after its slot id was changed from the one it was
\* built and serialized with.
SlotAlteredAndValidated ==
    /\ Validated
    /\ wire.from = "serialize"
    /\ Uint32(wire.bytes, 8) # frame.SlotID

\* The k lowest bits of a uint32, k <= 29.
LowBits(v, k) ==
    IF k <= 0 THEN 0
    ELSE IF k <= 16 THEN v.lo % (2 ^ k)
    ELSE (v.hi % (2 ^ (k - 16))) * Half + v.lo

\* The slot id is shifted left once by each of totalFragments, fragmentIndex,
\* flags and every payload byte that follows it.
ShiftsAfterSlotID == 3 + Len(frame.Data)

\* C24 as stated: whatever the payload length, a frame whose slot id was
\* altered after its checksum was computed fails Validate with
\* ChecksumMismatch.
C24_SlotAlwaysCovered ==
    SlotAlteredAndValidated => dec.err = "ChecksumMismatch"

\* C24 amended: the altered frame fails with ChecksumMismatch exactly when
\* the two slot ids differ in one of their 32 - (3 + len(payload)) lowest
\* bits; otherwise the difference is shifted out of the 32-bit checksum and
\* Validate accepts the frame (always so for a payload of 29 bytes or more).
C24_SlotCoveredUntilShiftedOut ==
    SlotAlteredAndValidated =>
        IF LowBits(Uint32(wire.bytes, 8), 32 - ShiftsAfterSlotID)
               # LowBits(frame.SlotID, 32 - ShiftsAfterSlotID)
        THEN dec.err = "ChecksumMismatch"
        ELSE dec.err = ""

\* Slot id 0 was changed to 1 in a frame of 29 payload bytes and Validate
\* accepted it.
C24_Witness ==
    /\ SlotAlteredAndValidated
    /\ Uint32(wire.bytes, 8) = U32(0, 0)
    /\ frame.SlotID = U32(0, 1)
    /\ Len(frame.Data) >= 29
    /\ dec.err = ""

\* The ASSIGNED slots of table sl whose NodeID is n.
OwnedBy(sl, n) == {i \in DOMAIN sl : sl[i].NodeID = n /\ sl[i].Status = "ASSIGNED"}

\* The slots of n that are stale: assigned 10 slot durations ago or more.
StaleOf(n) ==
    {i \in OwnedBy(slots, n) : Since(slots[i].StartTime) >= SlotDuration * StaleFactor}

\* What a call of allocate by n leaves behind for n: each slot of n that was
\* stale is FREE with empty owner, unless the search handed that very slot
\* to n again at the present instant; n owns the returned slot and no other
\* when the call succeeds, and no slot when it fails.
AllocateLeavesOne(n) ==
    /\ \A i \in StaleOf(n) :
          \/ slots'[i].Status = "FREE" /\ slots'[i].NodeID = ""
          \/ ret'.val = <<i>> /\ slots'[i].NodeID = n /\ slots'[i].StartTime = now
    /\ StaleOf(n) # {} => ret'.freed = 1 /\ ret'.path \in {"current", "next", "scan"}
    /\ OwnedBy(slots', n) = IF ret'.err = "" THEN {ret'.val[1]} ELSE {}

\* C25: under allocate, release and tick alone (no allocateConsecutive), with
\* the clock advancing by any amount, every node owns at most one ASSIGNED
\* slot in every reachable state; a call of allocate that finds the caller's
\* slot 10 slot durations old or older frees it (FREE, empty owner) before
\* it searches, and the caller ends the call owning exactly one slot, the
\* returned one, or none.
C25_SingleOwnership ==
    /\ [](\A n \in Nodes : Cardinality(OwnedBy(slots, n)) <= 1)
    /\ [][\A n \in Nodes, p \in Priorities :
              Allocate(n, p) => AllocateLeavesOne(n)]_vars

\* A call of allocate has freed the caller's stale slot and assigned the
\* slot after the pointer, while every node owns exactly one slot.
C25_Witness ==
    /\ ret.op = "allocate"
    /\ ret.freed = 1
    /\ ret.path = "next"
    /\ \A n \in Nodes : Cardinality(OwnedBy(slots, n)) = 1

\* Slot s is ASSIGNED to n and was assigned at most 5 slot durations ago.
ActiveOwner(n, s) ==
    /\ s \in OwnedBy(slots, n)
    /\ Since(slots[s].StartTime) <= SlotDuration * PreemptFactor

\* The slots of n that the first loop of allocate takes for valid.
FreshOf(n) ==
    {i \in OwnedBy(slots, n) : Since(slots[i].StartTime) < SlotDuration * StaleFactor}

\* No call of allocate or allocateConsecutive touches a slot assigned at most
\* 5 slot durations ago: owner, status and time of assignment stay.
ActiveSlotsKept ==
    [][ret'.op \in {"allocate", "consecutive"}
          => \A n \in Nodes, s \in SlotIds :
                 ActiveOwner(n, s) => slots'[s] = slots[s]]_vars

\* C26 as stated: a slot assigned at most 5 slot durations ago is not
\* reassigned by allocate or allocateConsecutive, and every allocate by its
\* owner in that time returns that slot's id.
C26_OwnerGetsSameSlot ==
    /\ ActiveSlotsKept
    /\ [][\A n \in Nodes, p \in Priorities :
              Allocate(n, p)
              => \A s \in SlotIds :
                     ActiveOwner(n, s) => ret'.err = "" /\ ret'.val = <<s>>]_vars

\* C26: a slot assigned at most 5 slot durations ago is not reassigned (nor
\* changed at all) by allocate or allocateConsecutive; an allocate by its
\* owner in that time succeeds and returns the lowest-numbered slot the
\* owner holds that is under 10 slot durations old, which is that slot
\* whenever the owner holds no other.
C26_OwnerGetsLowestFreshSlot ==
    /\ ActiveSlotsKept
    /\ [][\A n \in Nodes, p \in Priorities :
              Allocate(n, p)
              => \A s \in SlotIds :
                     ActiveOwner(n, s)
                     => /\ ret'.err = ""
                        /\ ret'.path = "owned"
                        /\ \E i \in FreshOf(n) :
                               /\ ret'.val = <<i>>
                               /\ \A j \in FreshOf(n) : i <= j
                        /\ OwnedBy(slots, n) = {s} => ret'.val = <<s>>]_vars

\* An allocate has returned to its caller the lower of two slots it holds,
\* both assigned at most 5 slot durations ago, while another node holds a
\* slot too.
C26_Witness ==
    /\ ret.op = "allocate"
    /\ ret.path = "owned"
    /\ \E n \in Nodes, s \in SlotIds :
           /\ ret.val[1] \in OwnedBy(slots, n)
           /\ ActiveOwner(n, s)
           /\ ActiveOwner(n, ret.val[1])
           /\ ret.val[1] < s
           /\ \E o \in Nodes \ {n} : OwnedBy(slots, o) # {}

====
